---- MODULE Spec2Model ----
(***************************************************************************)
(* State-machine model of the key-handling core of simply-sats             *)
(* (src-tauri/src): the Rust key store (key_store.rs), key derivation      *)
(* (key_derivation.rs), BRC-100 signing / ECIES (brc100_signing.rs) and    *)
(* the P2PKH transaction builder (transaction.rs).                         *)
(*                                                                         *)
(* Cryptographic primitives are modelled symbolically: a secret key is the *)
(* pair (seed, path) it was derived from, a hash is a tagged record of its *)
(* input, a signature is the pair (key, digest).  Encodings (WIF, address, *)
(* hex) are tagged records that the decoders check field by field.         *)
(***************************************************************************)
EXTENDS Integers, Sequences, FiniteSets, TLC

VARIABLES
    vault,      \* KeyStoreInner behind SharedKeyStore = Arc<Mutex<KeyStoreInner>>
    lock,       \* owner of the tokio Mutex guarding the vault, or NoOwner
    call,       \* per caller: the Tauri command it runs and its position in it
    hist,       \* history of the mnemonic since the last store (observation only)
    tx,         \* the last call of a stateless command and its result
    http,       \* the BRC-100 HTTP server: pending_responses, the forwarded
                \* requests, the session token, the last respond_to_brc100
    limiter,    \* RateLimitManager: the RateLimitState behind its mutex, the
                \* wall clock, the persisted store entry, the last answer
    session,    \* SessionState behind its mutex: the CSRF nonce bookkeeping,
                \* with the clock in seconds and the nonces handed out so far
                \* (the session token itself is http.token)
    server      \* the HTTP server: the build, the request rate limiter, and
                \* each request's way through the middleware and its handler

vars == <<vault, lock, call, hist, tx, http, limiter, session, server>>

-----------------------------------------------------------------------------
(* Option<T> and Result<T, String> *)

None == <<>>

Some(x) == <<x>>

IsSome(o) == Len(o) = 1

Unwrap(o) == o[1]

Ok(v) == [ok |-> TRUE, err |-> "", val |-> Some(v)]

Err(e) == [ok |-> FALSE, err |-> e, val |-> None]

-----------------------------------------------------------------------------
(* Concurrent callers of the Tauri commands (the two webview invocations   *)
(* that may overlap).                                                      *)

Callers == {"c1", "c2"}

NoOwner == "nobody"

\* The history counters saturate at this value.
HistCap == 2

\* supplied: the mnemonic the last store was given; gets: get_mnemonic_once
\* calls completed since; handed: those that returned a mnemonic; clears:
\* clear_keys calls completed since.
NoHistory == [supplied |-> None, gets |-> 0, handed |-> 0, clears |-> 0]

Bump(n) == IF n < HistCap THEN n + 1 ELSE n

-----------------------------------------------------------------------------
(* key_derivation.rs *)

\* A mnemonic string: its words and whether it carries surrounding whitespace.
Mnemonic(words, padded) == [words |-> words, padded |-> padded]

\* str::trim
Trim(m) == [m EXCEPT !.padded = FALSE]

\* Phrases that pass the BIP-39 wordlist / checksum validation.
ValidPhrases == {"abandon-about", "legal-winner"}

\* mnemonic_to_seed: parse + PBKDF2 with the empty passphrase.
mnemonic_to_seed(m) ==
    IF m.words \in ValidPhrases
    THEN Ok([pbkdf2_of |-> m.words])
    ELSE Err("Invalid mnemonic")

\* u32 scaled down to IndexBits bits; the top bit is the hardened flag.
IndexBits == 6

IndexModulus == 2 ^ IndexBits

HARDENED_FLAG == 2 ^ (IndexBits - 1)

\* One path component: index and hardened flag.
Child(index, hardened) == <<index, hardened>>

wallet_path(account_index) ==
    << Child(44, TRUE), Child(236, TRUE), Child(account_index, TRUE),
       Child(1, FALSE), Child(0, FALSE) >>

ordinals_path(account_index) ==
    << Child(44, TRUE), Child(236, TRUE), Child((account_index * 2 + 1) % IndexModulus, TRUE),
       Child(0, FALSE), Child(0, FALSE) >>

identity_path(account_index) ==
    << Child(0, TRUE), Child(236, TRUE), Child(account_index, TRUE),
       Child(0, FALSE), Child(0, FALSE) >>

\* The account component of a path: the third one.
AccountComponent(path) == path[3][1]

\* derivation that accepts any index for the account component
derive_xprv_from_seed_unchecked(seed, path) == Ok([seed |-> seed, path |-> path])

\* derive_xprv_from_seed: the child key reached from the master key of seed;
\* ChildNumber::new refuses an index that has the hardened flag bit set.
\* (The purpose and coin components 44, 236 and 0 are below the flag in u32.)
derive_xprv_from_seed(seed, path) ==
    IF AccountComponent(path) >= HARDENED_FLAG
    THEN Err("Invalid hardened index")
    ELSE Ok([seed |-> seed, path |-> path])

\* privkey_to_wif: Base58Check(0x80 || key || 0x01)
privkey_to_wif(sk) ==
    [enc |-> "base58check", version |-> 128, key |-> sk, compressed |-> TRUE]

\* pubkey_hex: hex of the 33-byte compressed public key of sk
pubkey_hex(sk) == [enc |-> "hex", pub_of |-> sk]

\* pubkey_to_address: Base58Check(0x00 || hash160(pubkey))
pubkey_to_address(sk) ==
    [enc |-> "base58check", version |-> 0, pkh |-> [hash160_of |-> sk]]

derive_keypair(seed, path) ==
    LET xprv == derive_xprv_from_seed(seed, path)
    IN  IF ~xprv.ok THEN Err(xprv.err)
        ELSE LET sk == Unwrap(xprv.val)
             IN  Ok([wif     |-> privkey_to_wif(sk),
                     address |-> pubkey_to_address(sk),
                     pub_key |-> pubkey_hex(sk)])

derive_wallet_keys_for_account(mnemonic, account_index) ==
    LET trimmed  == Trim(mnemonic)
        seed     == mnemonic_to_seed(trimmed)
    IN  IF ~seed.ok THEN Err(seed.err)
        ELSE
        LET s        == Unwrap(seed.val)
            wallet   == derive_keypair(s, wallet_path(account_index))
            ord      == derive_keypair(s, ordinals_path(account_index))
            identity == derive_keypair(s, identity_path(account_index))
        IN  IF ~wallet.ok THEN Err(wallet.err)
            ELSE IF ~ord.ok THEN Err(ord.err)
            ELSE IF ~identity.ok THEN Err(identity.err)
            ELSE Ok([mnemonic          |-> trimmed,
                     wallet_type       |-> "yours",
                     wallet_wif        |-> Unwrap(wallet.val).wif,
                     wallet_address    |-> Unwrap(wallet.val).address,
                     wallet_pub_key    |-> Unwrap(wallet.val).pub_key,
                     ord_wif           |-> Unwrap(ord.val).wif,
                     ord_address       |-> Unwrap(ord.val).address,
                     ord_pub_key       |-> Unwrap(ord.val).pub_key,
                     identity_wif      |-> Unwrap(identity.val).wif,
                     identity_address  |-> Unwrap(identity.val).address,
                     identity_pub_key  |-> Unwrap(identity.val).pub_key])

\* derive_wallet_keys_for_account in a build with overflow checks: the
\* multiplication account_index * 2 + 1 panics instead of wrapping.
derive_wallet_keys_for_account_overflow_checked(mnemonic, account_index) ==
    IF ~mnemonic_to_seed(Trim(mnemonic)).ok
    THEN derive_wallet_keys_for_account(mnemonic, account_index)
    ELSE IF account_index * 2 + 1 >= IndexModulus
    THEN Err("panicked: attempt to multiply with overflow")
    ELSE derive_wallet_keys_for_account(mnemonic, account_index)

derive_wallet_keys(mnemonic) == derive_wallet_keys_for_account(mnemonic, 0)

-----------------------------------------------------------------------------
(* brc100_signing.rs *)

\* wif_to_privkey: Base58Check decode, 0x80 prefix, 33 or 34 payload bytes.
wif_to_privkey(wif) ==
    IF wif.enc # "base58check" THEN Err("Invalid WIF")
    ELSE IF wif.version # 128 THEN Err("Invalid WIF prefix")
    ELSE Ok(wif.key)

\* parse_pubkey: hex decode + PublicKey::from_slice
parse_pubkey(hex_str) ==
    IF hex_str.enc # "hex" THEN Err("Invalid pubkey hex")
    ELSE Ok(hex_str.pub_of)

Sha256(payload) == [sha256_of |-> payload]

\* sign_message: SHA256(msg) -> ECDSA sign -> normalize_s -> DER hex
sign_message(wif, message) ==
    LET k == wif_to_privkey(wif)
    IN  IF ~k.ok THEN Err(k.err)
        ELSE Ok([enc |-> "hex", der |-> TRUE, low_s |-> TRUE,
                 signer |-> Unwrap(k.val), digest |-> Sha256(message)])

\* sign_data: SHA256(data) -> ECDSA sign -> normalize_s -> DER hex
sign_data(wif, data) ==
    LET k == wif_to_privkey(wif)
    IN  IF ~k.ok THEN Err(k.err)
        ELSE Ok([enc |-> "hex", der |-> TRUE, low_s |-> TRUE,
                 signer |-> Unwrap(k.val), digest |-> Sha256(data)])

\* a verification that does not look at the digest
verify_ecdsa_any_digest(msg, sig, pk) == sig.low_s /\ sig.signer = pk

\* secp.verify_ecdsa: the signature is low-S, made by the key of pk, over msg
verify_ecdsa(msg, sig, pk) == sig.low_s /\ sig.signer = pk /\ sig.digest = msg

\* verify_signature over a UTF-8 message
verify_signature(public_key_hex, message, signature_hex) ==
    IF signature_hex.enc = "empty" THEN Ok(FALSE)
    ELSE
    LET pk == parse_pubkey(public_key_hex)
    IN  IF ~pk.ok THEN Err(pk.err)
        ELSE IF signature_hex.enc # "hex" THEN Err("Invalid signature hex")
        ELSE IF ~signature_hex.der THEN Err("Invalid DER signature")
        ELSE Ok(verify_ecdsa(Sha256(message), signature_hex, Unwrap(pk.val)))

\* verify_data_signature over raw bytes
verify_data_signature(public_key_hex, data, signature_hex) ==
    IF signature_hex.enc = "empty" THEN Ok(FALSE)
    ELSE
    LET pk == parse_pubkey(public_key_hex)
    IN  IF ~pk.ok THEN Err(pk.err)
        ELSE IF signature_hex.enc # "hex" THEN Err("Invalid signature hex")
        ELSE IF ~signature_hex.der THEN Err("Invalid DER signature")
        ELSE Ok(verify_ecdsa(Sha256(data), signature_hex, Unwrap(pk.val)))

\* a shared key that depends on which side computes it
ecdh_shared_key_one_sided(sk, remote_pk) == [sha256_of_point |-> {sk}]

\* ecdh_shared_key: SHA256(compressed(sk * remote_pk)); the shared point of
\* (a, B) and (b, A) is the same point a*b*G.
ecdh_shared_key(sk, remote_pk) == [sha256_of_point |-> {sk, remote_pk}]

NONCE_LEN == 12

IV_HEADER_LEN == 32

TAG_LEN == 16

\* a ciphertext without the authentication tag appended
AesGcmEncrypt_no_tag(key, nonce, plaintext) ==
    [key |-> key, nonce |-> nonce, plaintext |-> plaintext, intact |-> TRUE,
     len |-> plaintext.len]

\* Aes256Gcm::encrypt: ciphertext of the plaintext's length plus the tag.
AesGcmEncrypt(key, nonce, plaintext) ==
    [key |-> key, nonce |-> nonce, plaintext |-> plaintext, intact |-> TRUE,
     len |-> plaintext.len + TAG_LEN]

\* encrypt_ecies; nonce is the value drawn from thread_rng.
encrypt_ecies(wif, plaintext, recipient_pub_key, sender_pub_key, nonce) ==
    LET k == wif_to_privkey(wif)
    IN  IF ~k.ok THEN Err(k.err)
        ELSE
        LET remote_pk == parse_pubkey(recipient_pub_key)
        IN  IF ~remote_pk.ok THEN Err(remote_pk.err)
            ELSE
            LET shared_key == ecdh_shared_key(Unwrap(k.val), Unwrap(remote_pk.val))
                ciphertext == AesGcmEncrypt(shared_key, nonce, plaintext)
                wire == [nonce |-> nonce,
                         pad   |-> IV_HEADER_LEN - NONCE_LEN,
                         data  |-> ciphertext,
                         len   |-> NONCE_LEN + (IV_HEADER_LEN - NONCE_LEN) + ciphertext.len]
            IN  Ok([ciphertext |-> [enc |-> "hex", bytes |-> wire],
                    sender_public_key |-> sender_pub_key])

\* decrypt_ecies on the wire bytes |nonce|pad|ciphertext|tag|
decrypt_ecies(wif, ciphertext_bytes, sender_pub_key) ==
    LET k == wif_to_privkey(wif)
    IN  IF ~k.ok THEN Err(k.err)
        ELSE
        LET remote_pk == parse_pubkey(sender_pub_key)
        IN  IF ~remote_pk.ok THEN Err(remote_pk.err)
            ELSE
            LET shared_key == ecdh_shared_key(Unwrap(k.val), Unwrap(remote_pk.val))
                data == ciphertext_bytes.data
            IN  IF ciphertext_bytes.len < IV_HEADER_LEN + TAG_LEN
                THEN Err("Ciphertext too short")
                ELSE IF data.key = shared_key /\ data.nonce = ciphertext_bytes.nonce
                        /\ data.intact
                THEN Ok(data.plaintext.text)
                ELSE Err("Decryption failed")

-----------------------------------------------------------------------------
(* transaction.rs *)

P2PKH_INPUT_SIZE == 148

P2PKH_OUTPUT_SIZE == 34

TX_OVERHEAD == 10

\* The literal of `prelim_change > 100` in calculate_change_and_fee.
DUST_THRESHOLD == 100

SIGHASH_ALL_FORKID == 65

\* 0xffffffff, kept as its hex text
SEQUENCE_FINAL == "ffffffff"

\* A fee rate f64 is the rational num/den (den > 0).
FeeRate(num, den) == [num |-> num, den |-> den]

\* (size as f64 * fee_rate).ceil() as u64: the cast saturates at 0.
CeilToU64(size, fee_rate) ==
    IF size * fee_rate.num <= 0 THEN 0
    ELSE (size * fee_rate.num + fee_rate.den - 1) \div fee_rate.den

\* the fee rounded down and not floored at 1
calculate_tx_fee_rounded_down(num_inputs, num_outputs, fee_rate) ==
    LET size == TX_OVERHEAD + num_inputs * P2PKH_INPUT_SIZE
                            + num_outputs * P2PKH_OUTPUT_SIZE
    IN  (size * fee_rate.num) \div fee_rate.den

calculate_tx_fee(num_inputs, num_outputs, fee_rate) ==
    LET size == TX_OVERHEAD + num_inputs * P2PKH_INPUT_SIZE
                            + num_outputs * P2PKH_OUTPUT_SIZE
        fee  == CeilToU64(size, fee_rate)
    IN  IF fee > 1 THEN fee ELSE 1

\* change reported before the fee is taken off
calculate_change_and_fee_fee_not_deducted(total_input, satoshis, num_inputs, fee_rate) ==
    LET prelim_change    == IF total_input >= satoshis
                            THEN total_input - satoshis ELSE 0
        will_have_change == prelim_change > DUST_THRESHOLD
        num_outputs      == IF will_have_change THEN 2 ELSE 1
        fee              == calculate_tx_fee(num_inputs, num_outputs, fee_rate)
    IN  IF total_input < satoshis \/ total_input - satoshis < fee
        THEN Err("Insufficient funds")
        ELSE Ok([fee |-> fee, change |-> prelim_change,
                 num_outputs |-> num_outputs])

\* saturating instead of checked subtraction: a shortfall is not reported
calculate_change_and_fee_saturating(total_input, satoshis, num_inputs, fee_rate) ==
    LET prelim_change    == IF total_input >= satoshis
                            THEN total_input - satoshis ELSE 0
        will_have_change == prelim_change > DUST_THRESHOLD
        num_outputs      == IF will_have_change THEN 2 ELSE 1
        fee              == calculate_tx_fee(num_inputs, num_outputs, fee_rate)
    IN  Ok([fee |-> fee,
            change |-> IF prelim_change >= fee THEN prelim_change - fee ELSE 0,
            num_outputs |-> num_outputs])

calculate_change_and_fee(total_input, satoshis, num_inputs, fee_rate) ==
    LET prelim_change    == IF total_input >= satoshis
                            THEN total_input - satoshis ELSE 0
        will_have_change == prelim_change > DUST_THRESHOLD
        num_outputs      == IF will_have_change THEN 2 ELSE 1
        fee              == calculate_tx_fee(num_inputs, num_outputs, fee_rate)
    IN  IF total_input < satoshis \/ total_input - satoshis < fee
        THEN Err("Insufficient funds")
        ELSE Ok([fee |-> fee, change |-> total_input - satoshis - fee,
                 num_outputs |-> num_outputs])

\* wif_to_privkey_bytes (transaction.rs has its own copy of the decoder)
wif_to_privkey_bytes(wif) ==
    IF wif.enc # "base58check" THEN Err("Invalid WIF")
    ELSE IF wif.version # 128 THEN Err("Invalid WIF prefix")
    ELSE Ok(wif.key)

\* pubkey_bytes: the 33-byte compressed public key
pubkey_bytes(sk) == [pub_of |-> sk]

hash160(pk) == [hash160_of |-> pk.pub_of]

double_sha256(data) == [dsha256_of |-> data]

address_from_pubkey(sk) ==
    [enc |-> "base58check", version |-> 0, pkh |-> hash160(pubkey_bytes(sk))]

\* OP_DUP OP_HASH160 <20-byte-hash> OP_EQUALVERIFY OP_CHECKSIG
p2pkh_locking_script(pubkey_hash) == [script |-> "p2pkh", pkh |-> pubkey_hash]

locking_script_from_address(address) ==
    IF address.enc # "base58check" THEN Err("Invalid address")
    ELSE IF address.version # 0 THEN Err("Invalid address prefix")
    ELSE Ok(p2pkh_locking_script(address.pkh))

\* txid_to_bytes: hex decode, 32 bytes, reversed
txid_to_bytes(txid) ==
    IF txid.bytes # 32 THEN Err("Invalid txid length")
    ELSE Ok([le_of |-> txid.hex])

TxOutput(satoshis, locking_script) ==
    [satoshis |-> satoshis, locking_script |-> locking_script]

serialize_outputs(outputs) == [serialized_outputs |-> outputs]

\* The input tuples (txid bytes, vout, satoshis, sequence) handed to sighash.
InputData(utxos) ==
    [i \in 1..Len(utxos) |->
        [txid_bytes |-> Unwrap(txid_to_bytes(utxos[i].txid).val),
         vout |-> utxos[i].vout, satoshis |-> utxos[i].satoshis,
         sequence |-> SEQUENCE_FINAL]]

\* One field appended to the preimage buffer.
PreimageField(name, bytes) == [f |-> name, v |-> bytes]

\* the preimage with the input value written after the sequence number
sighash_preimage_value_after_sequence(version, inputs, outputs_serialized, input_index, locking_script) ==
    LET inp == inputs[input_index]
    IN  double_sha256(
          << PreimageField("version", version),
             PreimageField("hash_prevouts", double_sha256(
                [i \in 1..Len(inputs) |-> <<inputs[i].txid_bytes, inputs[i].vout>>])),
             PreimageField("hash_sequence", double_sha256(
                [i \in 1..Len(inputs) |-> inputs[i].sequence])),
             PreimageField("outpoint", <<inp.txid_bytes, inp.vout>>),
             PreimageField("script_code", [varint_len_then |-> locking_script]),
             PreimageField("sequence", inp.sequence),
             PreimageField("value", inp.satoshis),
             PreimageField("hash_outputs", double_sha256(outputs_serialized)),
             PreimageField("locktime", 0),
             PreimageField("sighash_type", SIGHASH_ALL_FORKID) >>)

\* sighash_preimage: the double hash of the BIP-143 style preimage, the
\* fields in the order they are appended to the buffer
sighash_preimage(version, inputs, outputs_serialized, input_index, locking_script) ==
    LET sighash_type  == SIGHASH_ALL_FORKID
        hash_prevouts == double_sha256(
            [i \in 1..Len(inputs) |-> <<inputs[i].txid_bytes, inputs[i].vout>>])
        hash_sequence == double_sha256(
            [i \in 1..Len(inputs) |-> inputs[i].sequence])
        hash_outputs  == double_sha256(outputs_serialized)
        inp           == inputs[input_index]
        preimage ==
            << PreimageField("version", version),
               PreimageField("hash_prevouts", hash_prevouts),
               PreimageField("hash_sequence", hash_sequence),
               PreimageField("outpoint", <<inp.txid_bytes, inp.vout>>),
               PreimageField("script_code", [varint_len_then |-> locking_script]),
               PreimageField("value", inp.satoshis),
               PreimageField("sequence", inp.sequence),
               PreimageField("hash_outputs", hash_outputs),
               PreimageField("locktime", 0),
               PreimageField("sighash_type", sighash_type) >>
    IN  double_sha256(preimage)

sign_ecdsa(digest, sk) == [signer |-> sk, digest |-> digest]

der_encode_signature(sig, sighash_byte) == [der |-> sig, sighash_byte |-> sighash_byte]

\* <sig> <pubkey>: exactly two pushes
p2pkh_unlocking_script(sig_der, compressed_pubkey) ==
    << sig_der, compressed_pubkey >>

serialize_tx(inputs, outputs) ==
    [version |-> 1, inputs |-> inputs, outputs |-> outputs, locktime |-> 0]

compute_txid(raw_tx) == [enc |-> "hex", reversed |-> double_sha256(raw_tx)]

\* the outpoints listed last input first
SpentOutpoints_reversed(utxos) ==
    [i \in 1..Len(utxos) |-> [txid |-> utxos[Len(utxos) + 1 - i].txid,
                              vout |-> utxos[Len(utxos) + 1 - i].vout]]

SpentOutpoints(utxos) ==
    [i \in 1..Len(utxos) |-> [txid |-> utxos[i].txid, vout |-> utxos[i].vout]]

BadTxid(utxos) == \E i \in 1..Len(utxos) : ~txid_to_bytes(utxos[i].txid).ok

build_p2pkh_tx(wif, to_address, satoshis, selected_utxos, total_input, fee_rate) ==
    LET k == wif_to_privkey_bytes(wif)
    IN  IF ~k.ok THEN Err(k.err)
        ELSE
        LET sk   == Unwrap(k.val)
            pk   == pubkey_bytes(sk)
            pkh  == hash160(pk)
            from_address == address_from_pubkey(sk)
            from_locking_script == p2pkh_locking_script(pkh)
            cf   == calculate_change_and_fee(total_input, satoshis,
                                             Len(selected_utxos), fee_rate)
        IN  IF ~cf.ok THEN Err(cf.err)
            ELSE
            LET fee    == Unwrap(cf.val).fee
                change == Unwrap(cf.val).change
                to_locking_script == locking_script_from_address(to_address)
            IN  IF ~to_locking_script.ok THEN Err(to_locking_script.err)
                ELSE IF BadTxid(selected_utxos) THEN Err("Invalid txid length")
                ELSE
                LET outputs ==
                        << TxOutput(satoshis, Unwrap(to_locking_script.val)) >>
                        \o (IF change > 0
                            THEN << TxOutput(change, from_locking_script) >>
                            ELSE << >>)
                    outputs_serialized == serialize_outputs(outputs)
                    input_data == InputData(selected_utxos)
                    signed_inputs ==
                        [i \in 1..Len(selected_utxos) |->
                            LET sighash == sighash_preimage(1, input_data,
                                    outputs_serialized, i, from_locking_script)
                                sig     == sign_ecdsa(sighash, sk)
                                sig_der == der_encode_signature(sig, SIGHASH_ALL_FORKID)
                            IN  [txid_bytes |-> input_data[i].txid_bytes,
                                 vout       |-> selected_utxos[i].vout,
                                 script_sig |-> p2pkh_unlocking_script(sig_der, pk),
                                 sequence   |-> SEQUENCE_FINAL]]
                    raw_tx_bytes == serialize_tx(signed_inputs, outputs)
                IN  Ok([raw_tx |-> [enc |-> "hex", bytes |-> raw_tx_bytes],
                        txid   |-> compute_txid(raw_tx_bytes),
                        fee    |-> fee,
                        change |-> change,
                        change_address  |-> from_address,
                        spent_outpoints |-> SpentOutpoints(selected_utxos)])

BadInputWif(utxos) == \E i \in 1..Len(utxos) : ~wif_to_privkey_bytes(utxos[i].wif).ok

build_multi_key_p2pkh_tx(change_wif, to_address, satoshis, selected_utxos, total_input, fee_rate) ==
    LET k == wif_to_privkey_bytes(change_wif)
    IN  IF ~k.ok THEN Err(k.err)
        ELSE
        LET change_sk      == Unwrap(k.val)
            change_address == address_from_pubkey(change_sk)
            cf == calculate_change_and_fee(total_input, satoshis,
                                           Len(selected_utxos), fee_rate)
        IN  IF ~cf.ok THEN Err(cf.err)
            ELSE
            LET fee    == Unwrap(cf.val).fee
                change == Unwrap(cf.val).change
                to_locking_script == locking_script_from_address(to_address)
                change_locking_script == locking_script_from_address(change_address)
            IN  IF ~to_locking_script.ok THEN Err(to_locking_script.err)
                ELSE IF change > 0 /\ ~change_locking_script.ok
                THEN Err(change_locking_script.err)
                ELSE IF BadTxid(selected_utxos) THEN Err("Invalid txid length")
                ELSE IF BadInputWif(selected_utxos) THEN Err("Invalid WIF")
                ELSE
                LET outputs ==
                        << TxOutput(satoshis, Unwrap(to_locking_script.val)) >>
                        \o (IF change > 0
                            THEN << TxOutput(change, Unwrap(change_locking_script.val)) >>
                            ELSE << >>)
                    outputs_serialized == serialize_outputs(outputs)
                    input_data == InputData(selected_utxos)
                    signed_inputs ==
                        [i \in 1..Len(selected_utxos) |->
                            LET input_sk  == Unwrap(wif_to_privkey_bytes(selected_utxos[i].wif).val)
                                input_pk  == pubkey_bytes(input_sk)
                                input_locking_script == p2pkh_locking_script(hash160(input_pk))
                                sighash == sighash_preimage(1, input_data,
                                    outputs_serialized, i, input_locking_script)
                                sig     == sign_ecdsa(sighash, input_sk)
                                sig_der == der_encode_signature(sig, SIGHASH_ALL_FORKID)
                            IN  [txid_bytes |-> input_data[i].txid_bytes,
                                 vout       |-> selected_utxos[i].vout,
                                 script_sig |-> p2pkh_unlocking_script(sig_der, input_pk),
                                 sequence   |-> SEQUENCE_FINAL]]
                    raw_tx_bytes == serialize_tx(signed_inputs, outputs)
                IN  Ok([raw_tx |-> [enc |-> "hex", bytes |-> raw_tx_bytes],
                        txid   |-> compute_txid(raw_tx_bytes),
                        fee    |-> fee,
                        change |-> change,
                        change_address  |-> change_address,
                        spent_outpoints |-> SpentOutpoints(selected_utxos)])

RECURSIVE SumSatoshis(_)
SumSatoshis(utxos) ==
    IF utxos = << >> THEN 0
    ELSE utxos[1].satoshis + SumSatoshis(Tail(utxos))

\* consolidation that accepts a single input
build_consolidation_tx_single_input(wif, utxos, fee_rate) ==
    IF Len(utxos) < 1 THEN Err("Need at least 2 UTXOs to consolidate")
    ELSE
    LET k == wif_to_privkey_bytes(wif)
    IN  IF ~k.ok THEN Err(k.err)
        ELSE
        LET sk   == Unwrap(k.val)
            pk   == pubkey_bytes(sk)
            locking_script == p2pkh_locking_script(hash160(pk))
            total_input == SumSatoshis(utxos)
            fee == calculate_tx_fee(Len(utxos), 1, fee_rate)
            output_sats == IF total_input >= fee THEN total_input - fee ELSE 0
        IN  IF output_sats = 0 THEN Err("Cannot consolidate: leaves no output")
            ELSE IF BadTxid(utxos) THEN Err("Invalid txid length")
            ELSE
            LET outputs == << TxOutput(output_sats, locking_script) >>
                input_data == InputData(utxos)
                signed_inputs ==
                    [i \in 1..Len(utxos) |->
                        LET sighash == sighash_preimage(1, input_data,
                                serialize_outputs(outputs), i, locking_script)
                            sig_der == der_encode_signature(sign_ecdsa(sighash, sk),
                                                            SIGHASH_ALL_FORKID)
                        IN  [txid_bytes |-> input_data[i].txid_bytes,
                             vout       |-> utxos[i].vout,
                             script_sig |-> p2pkh_unlocking_script(sig_der, pk),
                             sequence   |-> SEQUENCE_FINAL]]
                raw_tx_bytes == serialize_tx(signed_inputs, outputs)
            IN  Ok([raw_tx |-> [enc |-> "hex", bytes |-> raw_tx_bytes],
                    txid   |-> compute_txid(raw_tx_bytes),
                    fee    |-> fee,
                    output_sats |-> output_sats,
                    address |-> address_from_pubkey(sk),
                    spent_outpoints |-> SpentOutpoints(utxos)])

build_consolidation_tx(wif, utxos, fee_rate) ==
    IF Len(utxos) < 2 THEN Err("Need at least 2 UTXOs to consolidate")
    ELSE
    LET k == wif_to_privkey_bytes(wif)
    IN  IF ~k.ok THEN Err(k.err)
        ELSE
        LET sk   == Unwrap(k.val)
            pk   == pubkey_bytes(sk)
            pkh  == hash160(pk)
            address == address_from_pubkey(sk)
            locking_script == p2pkh_locking_script(pkh)
            total_input == SumSatoshis(utxos)
            fee == calculate_tx_fee(Len(utxos), 1, fee_rate)
            output_sats == IF total_input >= fee THEN total_input - fee ELSE 0
        IN  IF output_sats = 0 THEN Err("Cannot consolidate: leaves no output")
            ELSE IF BadTxid(utxos) THEN Err("Invalid txid length")
            ELSE
            LET outputs == << TxOutput(output_sats, locking_script) >>
                outputs_serialized == serialize_outputs(outputs)
                input_data == InputData(utxos)
                signed_inputs ==
                    [i \in 1..Len(utxos) |->
                        LET sighash == sighash_preimage(1, input_data,
                                outputs_serialized, i, locking_script)
                            sig     == sign_ecdsa(sighash, sk)
                            sig_der == der_encode_signature(sig, SIGHASH_ALL_FORKID)
                        IN  [txid_bytes |-> input_data[i].txid_bytes,
                             vout       |-> utxos[i].vout,
                             script_sig |-> p2pkh_unlocking_script(sig_der, pk),
                             sequence   |-> SEQUENCE_FINAL]]
                raw_tx_bytes == serialize_tx(signed_inputs, outputs)
            IN  Ok([raw_tx |-> [enc |-> "hex", bytes |-> raw_tx_bytes],
                    txid   |-> compute_txid(raw_tx_bytes),
                    fee    |-> fee,
                    output_sats |-> output_sats,
                    address |-> address,
                    spent_outpoints |-> SpentOutpoints(utxos)])

-----------------------------------------------------------------------------
(* key_store.rs: KeyStoreInner *)

KeyStoreInner_new ==
    [wallet_wif |-> None, ord_wif |-> None, identity_wif |-> None,
     mnemonic |-> None, pub_keys |-> None]

\* clear that forgets the cached public keys
clear_keeps_pub_keys(store) ==
    [store EXCEPT !.wallet_wif = None, !.ord_wif = None, !.identity_wif = None,
                  !.mnemonic = None]

\* KeyStoreInner::clear: zeroize, then drop every field
clear(store) ==
    [store EXCEPT !.wallet_wif = None, !.ord_wif = None, !.identity_wif = None,
                  !.mnemonic = None, !.pub_keys = None]

has_keys(store) == IsSome(store.wallet_wif)

\* Option::ok_or_else
ok_or_else(opt, msg) == IF IsSome(opt) THEN Ok(Unwrap(opt)) ELSE Err(msg)

\* get_wif whose "ord" arm reads the wallet field
get_wif_ord_reads_wallet(store, key_type) ==
    CASE key_type = "wallet" ->
            ok_or_else(store.wallet_wif, "No wallet key stored")
      [] key_type \in {"ord", "ordinals"} ->
            ok_or_else(store.wallet_wif, "No ordinals key stored")
      [] key_type = "identity" ->
            ok_or_else(store.identity_wif, "No identity key stored")
      [] OTHER -> Err("Invalid key type")

\* KeyStoreInner::get_wif
get_wif(store, key_type) ==
    CASE key_type = "wallet" ->
            ok_or_else(store.wallet_wif, "No wallet key stored")
      [] key_type \in {"ord", "ordinals"} ->
            ok_or_else(store.ord_wif, "No ordinals key stored")
      [] key_type = "identity" ->
            ok_or_else(store.identity_wif, "No identity key stored")
      [] OTHER -> Err("Invalid key type")

\* get_wif that moves the secret out (Option::take) instead of cloning it
store_after_take_wif(store, key_type) ==
    CASE key_type = "wallet" -> [store EXCEPT !.wallet_wif = None]
      [] key_type \in {"ord", "ordinals"} -> [store EXCEPT !.ord_wif = None]
      [] key_type = "identity" -> [store EXCEPT !.identity_wif = None]
      [] OTHER -> store

\* get_wif takes &self and clones the field: the store is left as it was.
store_after_get_wif(store, key_type) == store

PublicWalletKeys(wallet_type, wallet_address, wallet_pub_key, ord_address, ord_pub_key, identity_address, identity_pub_key) ==
    [wallet_type |-> wallet_type,
     wallet_address |-> wallet_address, wallet_pub_key |-> wallet_pub_key,
     ord_address |-> ord_address, ord_pub_key |-> ord_pub_key,
     identity_address |-> identity_address, identity_pub_key |-> identity_pub_key]

\* store_keys, lines 118-126: the public projection of the derived keys
store_keys_pub_keys(full_keys) ==
    PublicWalletKeys(full_keys.wallet_type,
                     full_keys.wallet_address, full_keys.wallet_pub_key,
                     full_keys.ord_address, full_keys.ord_pub_key,
                     full_keys.identity_address, full_keys.identity_pub_key)

\* a commit that leaves the identity secret out
store_keys_commit_without_identity(store, full_keys, mnemonic) ==
    [clear(store) EXCEPT
        !.wallet_wif   = Some(full_keys.wallet_wif),
        !.ord_wif      = Some(full_keys.ord_wif),
        !.mnemonic     = Some(mnemonic),
        !.pub_keys     = Some(store_keys_pub_keys(full_keys))]

\* a commit that writes over the old record and leaves its identity secret
store_keys_commit_keeps_identity(store, full_keys, mnemonic) ==
    [store EXCEPT
        !.wallet_wif   = Some(full_keys.wallet_wif),
        !.ord_wif      = Some(full_keys.ord_wif),
        !.mnemonic     = Some(mnemonic),
        !.pub_keys     = Some(store_keys_pub_keys(full_keys))]

\* store_keys, lines 129-136: the commit under the lock
store_keys_commit(store, full_keys, mnemonic) ==
    [clear(store) EXCEPT
        !.wallet_wif   = Some(full_keys.wallet_wif),
        !.ord_wif      = Some(full_keys.ord_wif),
        !.identity_wif = Some(full_keys.identity_wif),
        !.mnemonic     = Some(mnemonic),
        !.pub_keys     = Some(store_keys_pub_keys(full_keys))]

\* store_keys_direct, lines 157-165
store_keys_direct_pub_keys(a) ==
    PublicWalletKeys("yours", a.wallet_address, a.wallet_pub_key,
                     a.ord_address, a.ord_pub_key,
                     a.identity_address, a.identity_pub_key)

\* store_keys_direct that only overwrites the mnemonic when one is supplied
store_keys_direct_commit_keeps_mnemonic(store, a) ==
    [store EXCEPT
        !.wallet_wif   = Some(a.wallet_wif),
        !.ord_wif      = Some(a.ord_wif),
        !.identity_wif = Some(a.identity_wif),
        !.mnemonic     = IF IsSome(a.mnemonic) THEN a.mnemonic ELSE @,
        !.pub_keys     = Some(store_keys_direct_pub_keys(a))]

\* store_keys_direct, lines 167-173: the commit under the lock
store_keys_direct_commit(store, a) ==
    [clear(store) EXCEPT
        !.wallet_wif   = Some(a.wallet_wif),
        !.ord_wif      = Some(a.ord_wif),
        !.identity_wif = Some(a.identity_wif),
        !.mnemonic     = a.mnemonic,
        !.pub_keys     = Some(store_keys_direct_pub_keys(a))]

\* get_mnemonic_once that returns the mnemonic without erasing it
get_mnemonic_once_store_not_erased(store) == store

\* get_mnemonic_once that empties the whole store
get_mnemonic_once_store_cleared(store) == clear(store)

\* get_mnemonic_once, lines 214-219: the store after the mnemonic was taken
get_mnemonic_once_store(store) == [store EXCEPT !.mnemonic = None]

\* The guard kept alive across the cryptographic call (no drop(store))
lock_kept_by_caller(c) == c

\* drop(store) before the cryptographic call: the guard is released.
lock_after_drop(c) == NoOwner

\* A MutexGuard still alive when the command returns is dropped then.
lock_at_return(c, owner) == IF owner = c THEN NoOwner ELSE owner

-----------------------------------------------------------------------------
(* Inputs the commands are called with *)

\* A key that was not derived here (an imported or a counterparty key).
ExternalKey(name) == [seed |-> [pbkdf2_of |-> name], path |-> << >>]

GoodMnemonic == Mnemonic("abandon-about", TRUE)

BadMnemonic == Mnemonic("not-a-phrase", FALSE)

BackupMnemonic == Mnemonic("legal-winner", FALSE)

StoreMnemonics == {GoodMnemonic, BadMnemonic}

AccountIndexes == {None, Some(1)}

\* The fields store_keys_direct is called with (keys unlocked from storage).
DirectKeys(mnemonic) ==
    [wallet_wif       |-> privkey_to_wif(ExternalKey("imported-wallet")),
     ord_wif          |-> privkey_to_wif(ExternalKey("imported-ord")),
     identity_wif     |-> privkey_to_wif(ExternalKey("imported-identity")),
     wallet_address   |-> pubkey_to_address(ExternalKey("imported-wallet")),
     wallet_pub_key   |-> pubkey_hex(ExternalKey("imported-wallet")),
     ord_address      |-> pubkey_to_address(ExternalKey("imported-ord")),
     ord_pub_key      |-> pubkey_hex(ExternalKey("imported-ord")),
     identity_address |-> pubkey_to_address(ExternalKey("imported-identity")),
     identity_pub_key |-> pubkey_hex(ExternalKey("imported-identity")),
     mnemonic         |-> mnemonic]

DirectMnemonics == {None, Some(BackupMnemonic)}

KeyTypes == {"wallet", "ord", "ordinals", "identity", "invalid"}

PeerKey == ExternalKey("peer")

Plaintext(text, len) == [text |-> text, len |-> len]

Nonces == {"n1"}

\* The identity key of account 0 of the good mnemonic.
Account0Identity ==
    [seed |-> [pbkdf2_of |-> "abandon-about"], path |-> identity_path(0)]

\* A frame the peer encrypted for Account0Identity, and a truncated frame.
PeerFrame ==
    Unwrap(encrypt_ecies(privkey_to_wif(PeerKey), Plaintext("secret", 6),
                         pubkey_hex(Account0Identity), pubkey_hex(PeerKey),
                         "n1").val).ciphertext.bytes

ShortFrame == [PeerFrame EXCEPT !.len = IV_HEADER_LEN + TAG_LEN - 1]

MainnetAddress == pubkey_to_address(ExternalKey("payee"))

TestnetAddress == [MainnetAddress EXCEPT !.version = 111]

Txid(hex, bytes) == [hex |-> hex, bytes |-> bytes]

UtxoInput(txid, vout, satoshis) ==
    [txid |-> txid, vout |-> vout, satoshis |-> satoshis,
     script |-> "76a914..88ac"]

ExtendedUtxoInput(txid, vout, satoshis, wif, address) ==
    [txid |-> txid, vout |-> vout, satoshis |-> satoshis,
     script |-> "76a914..88ac", wif |-> wif, address |-> address]

UtxoA == UtxoInput(Txid("aa", 32), 0, 5000)

UtxoB == UtxoInput(Txid("bb", 32), 1, 3000)

StandardRate == FeeRate(1, 10)

\* Arguments of the *_from_store builders in the vault scenarios.
StoreBuildArgs ==
    { [to_address |-> MainnetAddress, satoshis |-> 1000, total_input |-> 5000],
      [to_address |-> MainnetAddress, satoshis |-> 10000, total_input |-> 5000],
      [to_address |-> TestnetAddress, satoshis |-> 1000, total_input |-> 5000] }

-----------------------------------------------------------------------------
(* key_store.rs: the Tauri commands, one step per await point / phase *)

Idle == [op |-> "none", pc |-> "idle", args |-> None, local |-> None, result |-> None]

FromStoreOps ==
    {"sign_message_from_store", "sign_data_from_store",
     "encrypt_ecies_from_store", "decrypt_ecies_from_store",
     "build_p2pkh_tx_from_store", "build_multi_key_p2pkh_tx_from_store",
     "build_consolidation_tx_from_store"}

\* A command is invoked: its arguments are bound, nothing else happens yet.
Invoke(c, op, args, pc) ==
    /\ call[c].pc = "idle"
    /\ call' = [call EXCEPT ![c] = [op |-> op, pc |-> pc, args |-> Some(args),
                                    local |-> None, result |-> None]]
    /\ UNCHANGED <<vault, lock, hist, tx, http, limiter, session, server>>

Args(c) == Unwrap(call[c].args)

Finish(c, result) == [call EXCEPT ![c].pc = "done", ![c].result = Some(result)]

store_keys_call(c) ==
    \E m \in StoreMnemonics, a \in AccountIndexes :
        Invoke(c, "store_keys", [mnemonic |-> m, account_index |-> a], "derive")

\* store_keys that empties the store before it derives
store_keys_derive_after_clear(c) ==
    /\ call[c].pc = "derive"
    /\ LET a == Args(c)
           full_keys == IF IsSome(a.account_index)
                        THEN derive_wallet_keys_for_account(a.mnemonic,
                                                            Unwrap(a.account_index))
                        ELSE derive_wallet_keys(a.mnemonic)
       IN  /\ call' = IF full_keys.ok
                      THEN [call EXCEPT ![c].pc = "lock", ![c].local = full_keys.val]
                      ELSE Finish(c, Err(full_keys.err))
           /\ vault' = IF full_keys.ok THEN vault ELSE clear(vault)
    /\ UNCHANGED <<lock, hist, tx, http, limiter, session, server>>

\* store_keys, lines 110-116: derivation, before the lock is requested
store_keys_derive(c) ==
    /\ call[c].pc = "derive"
    /\ LET a == Args(c)
           full_keys == IF IsSome(a.account_index)
                        THEN derive_wallet_keys_for_account(a.mnemonic,
                                                            Unwrap(a.account_index))
                        ELSE derive_wallet_keys(a.mnemonic)
       IN  call' = IF full_keys.ok
                   THEN [call EXCEPT ![c].pc = "lock", ![c].local = full_keys.val]
                   ELSE Finish(c, Err(full_keys.err))
    /\ UNCHANGED <<vault, lock, hist, tx, http, limiter, session, server>>

\* key_store.lock().await
Acquire(c) ==
    /\ call[c].pc = "lock"
    /\ lock = NoOwner
    /\ lock' = c
    /\ call' = [call EXCEPT ![c].pc = "locked"]
    /\ UNCHANGED <<vault, hist, tx, http, limiter, session, server>>

store_keys_locked(c) ==
    /\ call[c].pc = "locked" /\ call[c].op = "store_keys"
    /\ LET full_keys == Unwrap(call[c].local)
       IN  /\ vault' = store_keys_commit(vault, full_keys, Args(c).mnemonic)
           /\ call' = Finish(c, Ok(store_keys_pub_keys(full_keys)))
    /\ lock' = NoOwner
    /\ hist' = [NoHistory EXCEPT !.supplied = Some(Args(c).mnemonic)]
    /\ UNCHANGED <<tx, http, limiter, session, server>>

store_keys_direct_call(c) ==
    \E m \in DirectMnemonics : Invoke(c, "store_keys_direct", DirectKeys(m), "lock")

store_keys_direct_locked(c) ==
    /\ call[c].pc = "locked" /\ call[c].op = "store_keys_direct"
    /\ vault' = store_keys_direct_commit(vault, Args(c))
    /\ call' = Finish(c, Ok(store_keys_direct_pub_keys(Args(c))))
    /\ lock' = NoOwner
    /\ hist' = [NoHistory EXCEPT !.supplied = Args(c).mnemonic]
    /\ UNCHANGED <<tx, http, limiter, session, server>>

clear_keys_call(c) == Invoke(c, "clear_keys", "no-args", "lock")

clear_keys_locked(c) ==
    /\ call[c].pc = "locked" /\ call[c].op = "clear_keys"
    /\ vault' = clear(vault)
    /\ call' = Finish(c, Ok("unit"))
    /\ lock' = NoOwner
    /\ hist' = [hist EXCEPT !.clears = Bump(@)]
    /\ UNCHANGED <<tx, http, limiter, session, server>>

get_public_keys_call(c) == Invoke(c, "get_public_keys", "no-args", "lock")

get_public_keys_locked(c) ==
    /\ call[c].pc = "locked" /\ call[c].op = "get_public_keys"
    /\ call' = Finish(c, Ok(vault.pub_keys))
    /\ lock' = NoOwner
    /\ UNCHANGED <<vault, hist, tx, http, limiter, session, server>>

has_keys_call(c) == Invoke(c, "has_keys", "no-args", "lock")

has_keys_locked(c) ==
    /\ call[c].pc = "locked" /\ call[c].op = "has_keys"
    /\ call' = Finish(c, Ok(has_keys(vault)))
    /\ lock' = NoOwner
    /\ UNCHANGED <<vault, hist, tx, http, limiter, session, server>>

get_mnemonic_once_call(c) == Invoke(c, "get_mnemonic_once", "no-args", "lock")

get_mnemonic_once_locked(c) ==
    /\ call[c].pc = "locked" /\ call[c].op = "get_mnemonic_once"
    /\ vault' = get_mnemonic_once_store(vault)
    /\ call' = Finish(c, Ok(vault.mnemonic))
    /\ lock' = NoOwner
    /\ hist' = [hist EXCEPT !.gets = Bump(@),
                             !.handed = IF IsSome(vault.mnemonic) THEN Bump(@) ELSE @]
    /\ UNCHANGED <<tx, http, limiter, session, server>>

sign_message_from_store_call(c) ==
    \E k \in KeyTypes :
        Invoke(c, "sign_message_from_store",
               [key_type |-> k, message |-> "Hello BSV"], "lock")

sign_data_from_store_call(c) ==
    Invoke(c, "sign_data_from_store",
           [key_type |-> "identity", data |-> "0102030405060708"], "lock")

encrypt_ecies_from_store_call(c) ==
    \E r \in {pubkey_hex(PeerKey), [pubkey_hex(PeerKey) EXCEPT !.enc = "text"]} :
        Invoke(c, "encrypt_ecies_from_store",
               [key_type |-> "identity", plaintext |-> Plaintext("hi", 2),
                recipient_pub_key |-> r,
                sender_pub_key |-> pubkey_hex(Account0Identity)], "lock")

decrypt_ecies_from_store_call(c) ==
    \E f \in {PeerFrame, ShortFrame} :
        Invoke(c, "decrypt_ecies_from_store",
               [key_type |-> "identity", ciphertext_bytes |-> f,
                sender_pub_key |-> pubkey_hex(PeerKey)], "lock")

build_p2pkh_tx_from_store_call(c) ==
    \E a \in StoreBuildArgs :
        Invoke(c, "build_p2pkh_tx_from_store",
               [key_type |-> "wallet", to_address |-> a.to_address,
                satoshis |-> a.satoshis, selected_utxos |-> << UtxoA >>,
                total_input |-> a.total_input, fee_rate |-> StandardRate], "lock")

build_multi_key_p2pkh_tx_from_store_call(c) ==
    Invoke(c, "build_multi_key_p2pkh_tx_from_store",
           [key_type |-> "wallet", to_address |-> MainnetAddress,
            satoshis |-> 1000,
            selected_utxos |->
                << ExtendedUtxoInput(Txid("aa", 32), 0, 5000,
                                     privkey_to_wif(ExternalKey("imported-ord")),
                                     pubkey_to_address(ExternalKey("imported-ord"))) >>,
            total_input |-> 5000, fee_rate |-> StandardRate], "lock")

build_consolidation_tx_from_store_call(c) ==
    \E u \in { << UtxoA, UtxoB >>, << UtxoA >> } :
        Invoke(c, "build_consolidation_tx_from_store",
               [key_type |-> "wallet", utxos |-> u, fee_rate |-> StandardRate],
               "lock")

\* The first three lines of every *_from_store command: resolve the WIF
\* under the lock, then drop the guard (on Err the guard goes with the `?`).
resolve_locked(c) ==
    /\ call[c].pc = "locked" /\ call[c].op \in FromStoreOps
    /\ LET wif == get_wif(vault, Args(c).key_type)
       IN  /\ vault' = store_after_get_wif(vault, Args(c).key_type)
           /\ IF wif.ok
              THEN /\ call' = [call EXCEPT ![c].pc = "compute", ![c].local = wif.val]
                   /\ lock' = lock_after_drop(c)
              ELSE /\ call' = Finish(c, Err(wif.err))
                   /\ lock' = NoOwner
    /\ UNCHANGED <<hist, tx, http, limiter, session, server>>

\* The cryptographic call made with the cloned WIF.
Computation(op, wif, a, nonce) ==
    CASE op = "sign_message_from_store" -> sign_message(wif, a.message)
      [] op = "sign_data_from_store" -> sign_data(wif, a.data)
      [] op = "encrypt_ecies_from_store" ->
            encrypt_ecies(wif, a.plaintext, a.recipient_pub_key,
                          a.sender_pub_key, nonce)
      [] op = "decrypt_ecies_from_store" ->
            decrypt_ecies(wif, a.ciphertext_bytes, a.sender_pub_key)
      [] op = "build_p2pkh_tx_from_store" ->
            build_p2pkh_tx(wif, a.to_address, a.satoshis, a.selected_utxos,
                           a.total_input, a.fee_rate)
      [] op = "build_multi_key_p2pkh_tx_from_store" ->
            build_multi_key_p2pkh_tx(wif, a.to_address, a.satoshis,
                                     a.selected_utxos, a.total_input, a.fee_rate)
      [] op = "build_consolidation_tx_from_store" ->
            build_consolidation_tx(wif, a.utxos, a.fee_rate)

compute(c) ==
    /\ call[c].pc = "compute"
    /\ \E nonce \in Nonces :
        call' = Finish(c, Computation(call[c].op, Unwrap(call[c].local),
                                      Args(c), nonce))
    /\ lock' = lock_at_return(c, lock)
    /\ UNCHANGED <<vault, hist, tx, http, limiter, session, server>>

\* The command's future completes and the caller may invoke again.
Return(c) ==
    /\ call[c].pc = "done"
    /\ call' = [call EXCEPT ![c] = Idle]
    /\ UNCHANGED <<vault, lock, hist, tx, http, limiter, session, server>>

\* A header that is not part of the request or the response.
NoToken == -1

\* SessionState::rotate_token: a token no earlier one equals
session_rotate_token_keep(token) == token

session_rotate_token(token) == token + 1

\* Request ids: uuid_simple gives every forwarded request its own.
RequestIds == {"req_1", "req_2"}

NoAnswer == "none"

\* A request not yet received: no channel, no answer.
NoRequest ==
    [pc |-> "idle", rotate_token |-> FALSE, chan |-> "none", value |-> "none",
     waited |-> 0, answer |-> NoAnswer, new_token |-> NoToken]

NoRespond == [id |-> "none", at |-> "none", found |-> FALSE, result |-> "none"]

\* BRC100State::default, a fresh session, no request in flight
HttpInit ==
    [pending_responses |-> {},
     req     |-> [r \in RequestIds |-> NoRequest],
     token   |-> 0,
     respond |-> NoRespond]

\* ---------------------------------------------------------------------------
\* rate_limiter.rs

MAX_ATTEMPTS == 5

BASE_LOCKOUT_MS == 1000

MAX_LOCKOUT_MS == 300000

RESET_AFTER_MS == 900000

\* u64 arithmetic is carried out on U64Bits bits instead of 64, so that a
\* product that leaves the type does so inside the range of the checker's
\* integers; the constants above keep their values.
U64Bits == 28

U64Modulus == 2 ^ U64Bits

\* 2u64.pow(exponent) in a build without overflow checks: 2^exponent modulo
\* the size of the type
pow2_wrapping(exponent) == IF exponent >= U64Bits THEN 0 ELSE 2 ^ exponent

RECURSIVE wrapping_mul(_, _)
\* a * b on u64 in a build without overflow checks
wrapping_mul(a, b) == IF b = 0 THEN 0 ELSE (((2 * wrapping_mul(a, b \div 2)) % U64Modulus) + (IF b % 2 = 1 THEN a % U64Modulus ELSE 0)) % U64Modulus

\* a * b does not fit the type
mul_overflows(a, b) == b # 0 /\ a > (U64Modulus - 1) \div b

MinU64(a, b) == IF a < b THEN a ELSE b

\* a backoff that is never capped and never wraps past the cap
calculate_lockout_duration_saturating(attempts) == IF attempts < MAX_ATTEMPTS THEN 0 ELSE MAX_LOCKOUT_MS

calculate_lockout_duration(attempts) ==
    IF attempts < MAX_ATTEMPTS
    THEN 0
    ELSE LET exponent == attempts - MAX_ATTEMPTS
             duration == wrapping_mul(BASE_LOCKOUT_MS, pow2_wrapping(exponent))
         IN  MinU64(duration, MAX_LOCKOUT_MS)

\* the same function in a build with overflow checks: pow and * panic
calculate_lockout_duration_overflow_checked(attempts) ==
    IF attempts < MAX_ATTEMPTS
    THEN Ok(0)
    ELSE LET exponent == attempts - MAX_ATTEMPTS
         IN  IF exponent >= U64Bits \/ mul_overflows(BASE_LOCKOUT_MS, pow2_wrapping(exponent))
             THEN Err("panicked: attempt to multiply with overflow")
             ELSE Ok(MinU64(BASE_LOCKOUT_MS * pow2_wrapping(exponent), MAX_LOCKOUT_MS))

RateLimitState_new == [attempts |-> 0, last_attempt |-> 0, locked_until |-> 0]

\* "Reset if last attempt was more than 15 minutes ago"
ResetDue(self, now) == now > self.last_attempt + RESET_AFTER_MS /\ self.last_attempt > 0

check_limit(self, now) ==
    IF ResetDue(self, now)
    THEN [self |-> RateLimitState_new, is_limited |-> FALSE, remaining_ms |-> 0]
    ELSE IF self.locked_until > now
         THEN [self |-> self, is_limited |-> TRUE, remaining_ms |-> self.locked_until - now]
         ELSE [self |-> self, is_limited |-> FALSE, remaining_ms |-> 0]

record_failed(self, now, overflow_checks) ==
    LET reset   == IF ResetDue(self, now)
                   THEN [self EXCEPT !.attempts = 0, !.locked_until = 0]
                   ELSE self
        counted == [reset EXCEPT !.attempts = @ + 1, !.last_attempt = now]
        lockout == IF overflow_checks
                   THEN calculate_lockout_duration_overflow_checked(counted.attempts)
                   ELSE Ok(calculate_lockout_duration(counted.attempts))
    IN  IF counted.attempts >= MAX_ATTEMPTS
        THEN IF lockout.ok
             THEN [self |-> [counted EXCEPT !.locked_until = now + Unwrap(lockout.val)],
                   panicked |-> FALSE, is_locked |-> TRUE,
                   lockout_ms |-> Unwrap(lockout.val), attempts_remaining |-> 0]
             ELSE [self |-> counted,
                   panicked |-> TRUE, is_locked |-> FALSE,
                   lockout_ms |-> 0, attempts_remaining |-> 0]
        ELSE [self |-> counted,
              panicked |-> FALSE, is_locked |-> FALSE,
              lockout_ms |-> 0, attempts_remaining |-> MAX_ATTEMPTS - counted.attempts]

\* a success that forgets the counter but keeps the lockout
record_success_keeps_lockout(self) == [self EXCEPT !.attempts = 0, !.last_attempt = 0]

record_success(self) == [self EXCEPT !.attempts = 0, !.last_attempt = 0, !.locked_until = 0]

\* remaining attempts computed without looking at the clock
remaining_attempts_no_reset(self, now) == IF self.attempts >= MAX_ATTEMPTS THEN 0 ELSE MAX_ATTEMPTS - self.attempts

remaining_attempts(self, now) ==
    IF ResetDue(self, now)
    THEN MAX_ATTEMPTS
    ELSE IF self.attempts >= MAX_ATTEMPTS THEN 0 ELSE MAX_ATTEMPTS - self.attempts

IntegrityKey == "installation key"

ForeignKey == "another key"

\* HMAC-SHA256 over the serialized state
compute_state_hmac(state, key) == [hmac_sha256_of |-> state, key |-> key]

NoHmac == [hmac_sha256_of |-> RateLimitState_new, key |-> "none"]

PersistedRateLimitState(state, hmac) == [format |-> "wrapper", state |-> state, hmac |-> hmac]

\* the old format: the bare RateLimitState, no hmac member
LegacyRecord(state) == [format |-> "legacy", state |-> state, hmac |-> NoHmac]

\* store.get(STORE_KEY) is None
NoEntry == [format |-> "absent", state |-> RateLimitState_new, hmac |-> NoHmac]

\* a value that deserializes as neither format
Unparsable == [format |-> "other", state |-> RateLimitState_new, hmac |-> NoHmac]

persist_state(store, state, key, opened) ==
    IF opened THEN PersistedRateLimitState(state, compute_state_hmac(state, key)) ELSE store

\* a loader that trusts the wrapper without comparing the HMAC
load_persisted_state_unverified(store, key, opened, reopened) == [state |-> IF opened /\ store.format \in {"wrapper", "legacy"} THEN store.state ELSE RateLimitState_new, store |-> store]

load_persisted_state(store, key, opened, reopened) ==
    IF ~opened \/ store.format \in {"absent", "other"}
    THEN [state |-> RateLimitState_new, store |-> store]
    ELSE IF store.format = "wrapper"
         THEN IF store.hmac = compute_state_hmac(store.state, key)
              THEN [state |-> store.state, store |-> store]
              ELSE [state |-> RateLimitState_new, store |-> store]
         ELSE [state |-> store.state,
               store |-> persist_state(store, store.state, key, reopened)]

\* The wall clock in milliseconds; it starts after the epoch.
ClockStart == 1

ClockSteps == {RESET_AFTER_MS, RESET_AFTER_MS + 1}

ClockEnd == ClockStart + RESET_AFTER_MS + 1

\* consecutive failed attempts the model follows
AttemptCap == U64Bits + MAX_ATTEMPTS + 2

NoOut ==
    [op |-> "none", panicked |-> FALSE, flag |-> FALSE, ms |-> 0, attempts_remaining |-> 0,
     gap |-> FALSE]

NoPrev == [op |-> "none", flag |-> FALSE]

\* out: the last command and what it answered (flag is is_limited, is_locked,
\* for record_success whether the state it reset was locked, for the load
\* whether the store opened); prev: the command before it.
\* streak: failed attempts in a row since the fresh state, -1 when the run
\* did not start from the fresh state; last_failed: time of the last one.
LimiterInit ==
    [state |-> RateLimitState_new, now |-> ClockStart, store |-> NoEntry,
     out |-> NoOut, prev |-> NoPrev, streak |-> 0, last_failed |-> 0]

\* ---------------------------------------------------------------------------
\* lib.rs: SessionState, the CSRF nonces

NONCE_EXPIRY_SECS == 300

\* "clock skew tolerance: 60s"
CLOCK_SKEW_SECS == 60

\* The code keeps up to 1000 used nonces; the model keeps this many, so that
\* the list can be filled within a run.
MAX_USED_NONCES == 2

\* A nonce string, by what validate_nonce reads in it: the number of parts
\* split('_') yields, whether the first part parses as u64 and to what, and
\* the text after the underscore (0: text that generate_nonce did not draw).
Nonce(time, random) == [parts |-> 2, numeric |-> TRUE, time |-> time, random |-> random]

NoUnderscore == [parts |-> 1, numeric |-> TRUE, time |-> 0, random |-> 0]

TwoUnderscores(time) == [parts |-> 3, numeric |-> TRUE, time |-> time, random |-> 0]

NotANumber == [parts |-> 2, numeric |-> FALSE, time |-> 0, random |-> 0]

\* seconds since the epoch when the session is created
SessionClockStart == 1000

SessionClockSteps == {NONCE_EXPIRY_SECS, NONCE_EXPIRY_SECS + 1}

SessionClockEnd == SessionClockStart + NONCE_EXPIRY_SECS + 1

\* nonces one session hands out in a run
NonceCap == MAX_USED_NONCES + 2

NoValidation == [op |-> "none", result |-> FALSE, replay |-> FALSE, issued |-> FALSE]

\* used_nonces, nonce_timestamps: the fields of SessionState.  now: the
\* clock.  issued: every nonce generate_nonce returned; accepted: every
\* nonce validate_nonce returned true for; out: the last call, its result,
\* whether its nonce had been accepted before, whether it had been issued.
SessionState_new ==
    [used_nonces |-> {}, nonce_timestamps |-> <<>>, now |-> SessionClockStart,
     issued |-> {}, accepted |-> {}, out |-> NoValidation]

generate_nonce(self, now, random) == Nonce(now, random)

\* retain(..): the entries that have not expired, in order
Retained(nonce_timestamps, now) == SelectSeq(nonce_timestamps, LAMBDA e : ~(now > e.timestamp + NONCE_EXPIRY_SECS))

Expired(nonce_timestamps, now) == {nonce_timestamps[i].nonce : i \in {j \in DOMAIN nonce_timestamps : now > nonce_timestamps[j].timestamp + NONCE_EXPIRY_SECS}}

RECURSIVE RemoveOldest(_)
\* "If still too many, remove oldest"
RemoveOldest(self) == IF Len(self.nonce_timestamps) > MAX_USED_NONCES THEN RemoveOldest([used_nonces |-> self.used_nonces \ {Head(self.nonce_timestamps).nonce}, nonce_timestamps |-> Tail(self.nonce_timestamps)]) ELSE self

cleanup_expired_nonces(self, now) ==
    RemoveOldest([used_nonces |-> self.used_nonces \ Expired(self.nonce_timestamps, now),
                  nonce_timestamps |-> Retained(self.nonce_timestamps, now)])

\* self: the fields used_nonces and nonce_timestamps
validate_nonce(self, nonce, now) ==
    LET cleaned == cleanup_expired_nonces(self, now)
    IN  IF nonce \in cleaned.used_nonces THEN [self |-> cleaned, result |-> FALSE]
        ELSE IF nonce.parts # 2 THEN [self |-> cleaned, result |-> FALSE]
        ELSE IF ~nonce.numeric THEN [self |-> cleaned, result |-> FALSE]
        ELSE IF now > nonce.time + NONCE_EXPIRY_SECS THEN [self |-> cleaned, result |-> FALSE]
        ELSE IF nonce.time > now + CLOCK_SKEW_SECS THEN [self |-> cleaned, result |-> FALSE]
        ELSE [self |-> [used_nonces |-> cleaned.used_nonces \cup {nonce},
                        nonce_timestamps |-> Append(cleaned.nonce_timestamps,
                                                    [nonce |-> nonce, timestamp |-> nonce.time])],
              result |-> TRUE]

\* ---------------------------------------------------------------------------
\* http_server.rs: the middleware stack and the route handlers

\* Quota::per_minute(RATE_LIMIT_PER_MINUTE): that many requests pass at once
\* (60 in the source, scaled with MAX_USED_NONCES so that, as in the source,
\* fewer requests than MAX_USED_NONCES can pass while one nonce is live).
RATE_LIMIT_PER_MINUTE == MAX_USED_NONCES

\* Connections served by the model before it stops accepting.
MaxRequests == 3

\* A token header that no rotate_token ever produced.
WrongToken == NoToken - 1

NoHost == "none"

ALLOWED_HOSTS ==
    {"127.0.0.1", "localhost", "127.0.0.1:3322", "localhost:3322", "[::1]", "[::1]:3322"}

\* Host header values: an allowed one, one differing in case only, a foreign one
Hosts == {"localhost:3322", "LocalHost:3322", "evil.example", NoHost}

to_ascii_lowercase(h) == IF h = "LocalHost:3322" THEN "localhost:3322" ELSE h

\* lines 118-119: Some(h) if ALLOWED_HOSTS.iter().any(|a| h.eq_ignore_ascii_case(a))
host_allowed(host) ==
    host # NoHost /\ \E allowed \in ALLOWED_HOSTS : to_ascii_lowercase(host) = allowed

\* a comparison every token passes
token_is_valid_any(token, session_token) == TRUE

\* lines 144-148: equal length and ct_eq, that is, equality of the strings
token_is_valid(token, session_token) == token = session_token

\* SessionState::is_token_expired: the age test of the session token; either
\* answer is possible at any request
is_token_expired == BOOLEAN

\* An Origin (or, without one, Referer) header value; port 0 is no port.
Origin(scheme, host, port) == [scheme |-> scheme, host |-> host, port |-> port]

NoOrigin == Origin("none", "none", 0)

\* a header value url::Url::parse rejects, such as "null"
UnparsableOrigin == Origin("unparsable", "none", 0)

\* #[cfg(debug_assertions)] / #[cfg(not(debug_assertions))]
ALLOWED_ORIGINS(debug_assertions) ==
    {Origin("http", "localhost", 0), Origin("http", "127.0.0.1", 0),
     Origin("tauri", "localhost", 0), Origin("https", "tauri.localhost", 0)}
    \cup (IF debug_assertions
          THEN {Origin("http", h, p) : h \in {"localhost", "127.0.0.1"},
                                       p \in {1420, 3000, 3001}}
          ELSE {})

\* Origin header values: allowed without port, a dev-server port, a port in
\* no list, a foreign host, none, unparsable
Origins ==
    {Origin("http", "localhost", 0), Origin("http", "localhost", 1420),
     Origin("http", "localhost", 9999), Origin("https", "evil.example", 0),
     NoOrigin, UnparsableOrigin}

\* lines 416-431: format!("{}://{}", url.scheme(), url.host_str()...)
extract_origin(header) ==
    IF header = NoOrigin \/ header = UnparsableOrigin
    THEN None
    ELSE Some(Origin(header.scheme, header.host, 0))

\* lines 434-454
validate_origin(origin, debug_assertions) ==
    IF IsSome(origin) /\ Unwrap(origin) \in ALLOWED_ORIGINS(debug_assertions)
    THEN Ok("origin")
    ELSE IF IsSome(origin) THEN Err("Origin not allowed")
    ELSE Err("Missing Origin header")

\* The routes that forward to the frontend with and without token rotation,
\* and one that answers by itself.
RotatingRoutes == {"createSignature", "createAction", "lockBSV", "unlockBSV"}
ForwardingRoutes == RotatingRoutes \cup {"listOutputs", "listLocks"}
Routes == ForwardingRoutes \cup {"getNonce"}

\* A connection no request has arrived on.
NoHttpRequest ==
    [stage |-> "idle", host |-> NoHost, token_header |-> NoToken,
     token_seen |-> NoToken, is_expired |-> FALSE, rate_taken |-> FALSE,
     route |-> "none", origin |-> NoOrigin, nonce |-> "none",
     status |-> 0, message |-> "none", new_token |-> NoToken]

\* Before start_server: nothing listens.
ServerInit ==
    [started |-> FALSE, debug_assertions |-> FALSE, rate_used |-> 0, served |-> 0,
     req |-> [r \in RequestIds |-> NoHttpRequest]]

TxIdle == [op |-> "none", args |-> None, result |-> None]

Init ==
    /\ vault = KeyStoreInner_new
    /\ lock = NoOwner
    /\ call = [c \in Callers |-> Idle]
    /\ hist = NoHistory
    /\ tx = TxIdle
    /\ http = HttpInit
    /\ limiter = LimiterInit
    /\ session = SessionState_new
    /\ server = ServerInit

Next ==
    \E c \in Callers :
        \/ store_keys_call(c)
        \/ store_keys_derive(c)
        \/ Acquire(c)
        \/ store_keys_locked(c)
        \/ store_keys_direct_call(c)
        \/ store_keys_direct_locked(c)
        \/ clear_keys_call(c)
        \/ clear_keys_locked(c)
        \/ get_public_keys_call(c)
        \/ get_public_keys_locked(c)
        \/ has_keys_call(c)
        \/ has_keys_locked(c)
        \/ get_mnemonic_once_call(c)
        \/ get_mnemonic_once_locked(c)
        \/ sign_message_from_store_call(c)
        \/ sign_data_from_store_call(c)
        \/ encrypt_ecies_from_store_call(c)
        \/ decrypt_ecies_from_store_call(c)
        \/ build_p2pkh_tx_from_store_call(c)
        \/ build_multi_key_p2pkh_tx_from_store_call(c)
        \/ build_consolidation_tx_from_store_call(c)
        \/ resolve_locked(c)
        \/ compute(c)
        \/ Return(c)

Spec == Init /\ [][Next]_vars

-----------------------------------------------------------------------------
(* transaction.rs: the builder commands called on their own.  They are    *)
(* stateless, so a scenario is one call: its arguments and its result.     *)

\* Longest UTXO list a builder is called with.
MaxInputs == 2

SeqsUpTo(S, n) == UNION { [1..k -> S] : k \in 0..n }

JunkWif == [privkey_to_wif(ExternalKey("imported-wallet")) EXCEPT !.enc = "text"]

TxWifs == { privkey_to_wif(ExternalKey("imported-wallet")), JunkWif }

TxAddresses == { MainnetAddress, TestnetAddress }

TxAmounts == { 1000, 10000 }

\* Around 1000: short, exact, within the dust band, just above it, well
\* funded; 8000 is what UtxoA and UtxoB are worth together.
TxTotals == { 100, 1000, 1020, 1100, 1150, 1226, 8000, 10000 }

TxRates == { FeeRate(0, 1), FeeRate(1, 20), FeeRate(1, 10), FeeRate(1, 1) }

UtxoShortTxid == UtxoInput(Txid("cc", 31), 0, 700)

\* Two of these together are worth the fee of consolidating them at rate 1.
UtxoDust == UtxoInput(Txid("ee", 32), 2, 170)

UtxoPool == { UtxoA, UtxoB, UtxoShortTxid, UtxoDust }

ExtUtxoA ==
    ExtendedUtxoInput(Txid("aa", 32), 0, 5000,
                      privkey_to_wif(ExternalKey("imported-ord")),
                      pubkey_to_address(ExternalKey("imported-ord")))

ExtUtxoB ==
    ExtendedUtxoInput(Txid("bb", 32), 1, 3000,
                      privkey_to_wif(ExternalKey("imported-identity")),
                      pubkey_to_address(ExternalKey("imported-identity")))

ExtUtxoJunkWif ==
    ExtendedUtxoInput(Txid("dd", 32), 0, 700, JunkWif,
                      pubkey_to_address(ExternalKey("imported-wallet")))

ExtUtxoPool == { ExtUtxoA, ExtUtxoB, ExtUtxoJunkWif }

TxCall(op, args, result) == [op |-> op, args |-> Some(args), result |-> Some(result)]

build_p2pkh_tx_cmd ==
    /\ tx.op = "none"
    /\ \E wif \in TxWifs, to_address \in TxAddresses, satoshis \in TxAmounts,
          selected_utxos \in SeqsUpTo(UtxoPool, MaxInputs),
          total_input \in TxTotals, fee_rate \in TxRates :
        tx' = TxCall("build_p2pkh_tx",
                     [wif |-> wif, to_address |-> to_address, satoshis |-> satoshis,
                      selected_utxos |-> selected_utxos,
                      total_input |-> total_input, fee_rate |-> fee_rate],
                     build_p2pkh_tx(wif, to_address, satoshis, selected_utxos,
                                    total_input, fee_rate))
    /\ UNCHANGED <<vault, lock, call, hist, http, limiter, session, server>>

build_multi_key_p2pkh_tx_cmd ==
    /\ tx.op = "none"
    /\ \E wif \in TxWifs, to_address \in TxAddresses, satoshis \in TxAmounts,
          selected_utxos \in SeqsUpTo(ExtUtxoPool, MaxInputs),
          total_input \in TxTotals, fee_rate \in TxRates :
        tx' = TxCall("build_multi_key_p2pkh_tx",
                     [wif |-> wif, to_address |-> to_address, satoshis |-> satoshis,
                      selected_utxos |-> selected_utxos,
                      total_input |-> total_input, fee_rate |-> fee_rate],
                     build_multi_key_p2pkh_tx(wif, to_address, satoshis,
                                              selected_utxos, total_input, fee_rate))
    /\ UNCHANGED <<vault, lock, call, hist, http, limiter, session, server>>

build_consolidation_tx_cmd ==
    /\ tx.op = "none"
    /\ \E wif \in TxWifs, utxos \in SeqsUpTo(UtxoPool, MaxInputs),
          fee_rate \in TxRates :
        tx' = TxCall("build_consolidation_tx",
                     [wif |-> wif, utxos |-> utxos, fee_rate |-> fee_rate],
                     build_consolidation_tx(wif, utxos, fee_rate))
    /\ UNCHANGED <<vault, lock, call, hist, http, limiter, session, server>>

\* The result is handed back; the next call starts from scratch.
tx_return ==
    /\ tx.op # "none"
    /\ tx' = TxIdle
    /\ UNCHANGED <<vault, lock, call, hist, http, limiter, session, server>>

TxNext ==
    \/ build_p2pkh_tx_cmd
    \/ build_multi_key_p2pkh_tx_cmd
    \/ build_consolidation_tx_cmd
    \/ tx_return

TxSpec == Init /\ [][TxNext]_vars

-----------------------------------------------------------------------------
(* brc100_signing.rs: the signing and ECIES commands called directly *)

CryptoKeys == { Account0Identity, PeerKey, ExternalKey("imported-wallet") }

CryptoWifs == { privkey_to_wif(k) : k \in CryptoKeys } \cup { JunkWif }

PubKeyHexes ==
    { pubkey_hex(k) : k \in CryptoKeys } \cup { [pubkey_hex(PeerKey) EXCEPT !.enc = "text"] }

Payloads == { "Hello BSV", "Hello BSW", "" }

SignedMessages ==
    { Unwrap(sign_message(privkey_to_wif(k), p).val) : k \in CryptoKeys, p \in Payloads }

\* The empty string, a string that is not hex, hex that is not DER.
EmptySignature ==
    [Unwrap(sign_message(privkey_to_wif(PeerKey), "").val) EXCEPT !.enc = "empty", !.der = FALSE]

NonHexSignature ==
    [Unwrap(sign_message(privkey_to_wif(PeerKey), "").val) EXCEPT !.enc = "text", !.der = FALSE]

NonDerSignature ==
    [Unwrap(sign_message(privkey_to_wif(PeerKey), "").val) EXCEPT !.der = FALSE]

MalformedSignatures == { EmptySignature, NonHexSignature, NonDerSignature }

Plaintexts == { Plaintext("", 0), Plaintext("secret", 6) }

EciesFrames ==
    { Unwrap(encrypt_ecies(privkey_to_wif(a), pt, pubkey_hex(b), pubkey_hex(a), n).val).ciphertext.bytes :
        a \in CryptoKeys, b \in CryptoKeys, pt \in Plaintexts, n \in Nonces }

\* Frames cut to one byte less than header plus tag, and to the header alone.
TruncatedFrames ==
    { [PeerFrame EXCEPT !.len = n] : n \in {IV_HEADER_LEN, IV_HEADER_LEN + TAG_LEN - 1} }

sign_message_cmd ==
    /\ tx.op = "none"
    /\ \E wif \in CryptoWifs, message \in Payloads :
        tx' = TxCall("sign_message", [wif |-> wif, message |-> message],
                     sign_message(wif, message))
    /\ UNCHANGED <<vault, lock, call, hist, http, limiter, session, server>>

sign_data_cmd ==
    /\ tx.op = "none"
    /\ \E wif \in CryptoWifs, data \in Payloads :
        tx' = TxCall("sign_data", [wif |-> wif, data |-> data], sign_data(wif, data))
    /\ UNCHANGED <<vault, lock, call, hist, http, limiter, session, server>>

verify_signature_cmd ==
    /\ tx.op = "none"
    /\ \E pk \in PubKeyHexes, message \in Payloads,
          sig \in SignedMessages \cup MalformedSignatures :
        tx' = TxCall("verify_signature",
                     [public_key_hex |-> pk, payload |-> message, signature_hex |-> sig],
                     verify_signature(pk, message, sig))
    /\ UNCHANGED <<vault, lock, call, hist, http, limiter, session, server>>

verify_data_signature_cmd ==
    /\ tx.op = "none"
    /\ \E pk \in PubKeyHexes, data \in Payloads,
          sig \in SignedMessages \cup MalformedSignatures :
        tx' = TxCall("verify_data_signature",
                     [public_key_hex |-> pk, payload |-> data, signature_hex |-> sig],
                     verify_data_signature(pk, data, sig))
    /\ UNCHANGED <<vault, lock, call, hist, http, limiter, session, server>>

encrypt_ecies_cmd ==
    /\ tx.op = "none"
    /\ \E wif \in CryptoWifs, plaintext \in Plaintexts, recipient \in PubKeyHexes,
          sender \in PubKeyHexes, nonce \in Nonces :
        tx' = TxCall("encrypt_ecies",
                     [wif |-> wif, plaintext |-> plaintext,
                      recipient_pub_key |-> recipient, sender_pub_key |-> sender],
                     encrypt_ecies(wif, plaintext, recipient, sender, nonce))
    /\ UNCHANGED <<vault, lock, call, hist, http, limiter, session, server>>

decrypt_ecies_cmd ==
    /\ tx.op = "none"
    /\ \E wif \in CryptoWifs, frame \in EciesFrames \cup TruncatedFrames,
          sender \in PubKeyHexes :
        tx' = TxCall("decrypt_ecies",
                     [wif |-> wif, ciphertext_bytes |-> frame, sender_pub_key |-> sender],
                     decrypt_ecies(wif, frame, sender))
    /\ UNCHANGED <<vault, lock, call, hist, http, limiter, session, server>>

CryptoNext ==
    \/ sign_message_cmd
    \/ sign_data_cmd
    \/ verify_signature_cmd
    \/ verify_data_signature_cmd
    \/ encrypt_ecies_cmd
    \/ decrypt_ecies_cmd
    \/ tx_return

CryptoSpec == Init /\ [][CryptoNext]_vars

-----------------------------------------------------------------------------
(* key_derivation.rs: the derivation commands called directly *)

DeriveMnemonics == { GoodMnemonic, BadMnemonic, BackupMnemonic }

AllAccountIndexes == 0..(IndexModulus - 1)

\* overflow_checks: whether the build traps arithmetic overflow.
derive_wallet_keys_for_account_cmd ==
    /\ tx.op = "none"
    /\ \E mnemonic \in DeriveMnemonics, account_index \in AllAccountIndexes,
          overflow_checks \in BOOLEAN :
        tx' = TxCall("derive_wallet_keys_for_account",
                     [mnemonic |-> mnemonic, account_index |-> account_index,
                      overflow_checks |-> overflow_checks],
                     IF overflow_checks
                     THEN derive_wallet_keys_for_account_overflow_checked(mnemonic,
                                                                         account_index)
                     ELSE derive_wallet_keys_for_account(mnemonic, account_index))
    /\ UNCHANGED <<vault, lock, call, hist, http, limiter, session, server>>

derive_wallet_keys_cmd ==
    /\ tx.op = "none"
    /\ \E mnemonic \in DeriveMnemonics :
        tx' = TxCall("derive_wallet_keys",
                     [mnemonic |-> mnemonic, account_index |-> 0,
                      overflow_checks |-> FALSE],
                     derive_wallet_keys(mnemonic))
    /\ UNCHANGED <<vault, lock, call, hist, http, limiter, session, server>>

DeriveNext ==
    \/ derive_wallet_keys_for_account_cmd
    \/ derive_wallet_keys_cmd
    \/ tx_return

DeriveSpec == Init /\ [][DeriveNext]_vars

-----------------------------------------------------------------------------
(* http_server.rs: forward_to_frontend_impl, and lib.rs: respond_to_brc100 *)

TIMEOUT_SECS == 120

\* The step by which a waiting request's clock advances.
TICK_SECS == 60

FrontendResponses == {"result", "error"}

\* a removal that leaves the map as it is
pending_responses_keep(pending_responses, id) == pending_responses

\* HashMap::remove on pending_responses
pending_responses_remove(pending_responses, id) == pending_responses \ {id}

\* HashMap::insert on pending_responses
pending_responses_insert(pending_responses, id) == pending_responses \cup {id}

SetReq(r, rec) == [http EXCEPT !.req[r] = rec]

\* lines 752-758: the oneshot channel is created and its sender registered
forward_insert(r) ==
    /\ http.req[r].pc = "idle"
    /\ \E rotate_token \in BOOLEAN :
        http' = [http EXCEPT
            !.pending_responses = pending_responses_insert(@, r),
            !.req[r] = [@ EXCEPT !.pc = "inserted", !.chan = "open",
                                 !.rotate_token = rotate_token]]
    /\ UNCHANGED <<vault, lock, call, hist, tx, limiter, session, server>>

\* lines 777-784: the brc100-request event is emitted; when that fails the
\* handler returns (dropping the receiver) without touching the map
forward_emit(r) ==
    /\ http.req[r].pc = "inserted"
    /\ \E emitted \in BOOLEAN :
        http' = IF emitted
                THEN SetReq(r, [http.req[r] EXCEPT !.pc = "waiting"])
                ELSE SetReq(r, [http.req[r] EXCEPT !.pc = "answered",
                        !.chan = IF @ = "open" THEN "closed" ELSE @,
                        !.answer = "Internal error"])
    /\ UNCHANGED <<vault, lock, call, hist, tx, limiter, session, server>>

\* time passes for a request waiting in tokio::time::timeout
forward_tick(r) ==
    /\ http.req[r].pc = "waiting" /\ http.req[r].waited < TIMEOUT_SECS
    /\ http' = SetReq(r, [http.req[r] EXCEPT !.waited = @ + TICK_SECS])
    /\ UNCHANGED <<vault, lock, call, hist, tx, limiter, session, server>>

\* lines 787-811, Ok(Ok(response)): the response is turned into the answer,
\* the session token rotated after a successful state-changing operation
forward_receive(r) ==
    /\ http.req[r].pc = "waiting" /\ http.req[r].chan = "full"
    /\ http' = [http EXCEPT
            !.req[r] = [@ EXCEPT !.pc = "answered", !.chan = "closed",
                                 !.answer = IF http.req[r].value = "error"
                                            THEN "frontend error" ELSE "result",
                                 !.new_token =
                                    IF http.req[r].value = "result" /\ http.req[r].rotate_token
                                    THEN session_rotate_token(http.token) ELSE @],
            !.token = IF http.req[r].value = "result" /\ http.req[r].rotate_token
                      THEN session_rotate_token(@) ELSE @]
    /\ UNCHANGED <<vault, lock, call, hist, tx, limiter, session, server>>

\* a timeout that fires whatever the channel holds
forward_timeout_over_response(r) ==
    /\ http.req[r].pc = "waiting"
    /\ http.req[r].waited >= TIMEOUT_SECS
    /\ http' = SetReq(r, [http.req[r] EXCEPT !.pc = "elapsed", !.chan = "closed"])
    /\ UNCHANGED <<vault, lock, call, hist, tx, limiter, session, server>>

\* line 786, Err(_): 120 s passed with nothing in the channel; the timeout
\* future and with it the receiver are dropped
forward_timeout(r) ==
    /\ http.req[r].pc = "waiting" /\ http.req[r].chan = "open"
    /\ http.req[r].waited >= TIMEOUT_SECS
    /\ http' = SetReq(r, [http.req[r] EXCEPT !.pc = "elapsed", !.chan = "closed"])
    /\ UNCHANGED <<vault, lock, call, hist, tx, limiter, session, server>>

\* lines 822-831: under the lock the entry is removed, then the answer built
forward_timeout_cleanup(r) ==
    /\ http.req[r].pc = "elapsed"
    /\ http' = [http EXCEPT
            !.pending_responses = pending_responses_remove(@, r),
            !.req[r] = [@ EXCEPT !.pc = "answered", !.answer = "Request timeout"]]
    /\ UNCHANGED <<vault, lock, call, hist, tx, limiter, session, server>>

\* lib.rs respond_to_brc100: under the lock the sender is taken out of the
\* map and the response sent; send fails when the receiver is gone
respond_to_brc100(request_id, response) ==
    /\ LET found == request_id \in http.pending_responses
           open  == http.req[request_id].chan = "open"
       IN  http' = [http EXCEPT
            !.pending_responses = IF found THEN pending_responses_remove(@, request_id)
                                  ELSE @,
            !.req[request_id] = IF found /\ open
                                THEN [@ EXCEPT !.chan = "full", !.value = response]
                                ELSE @,
            !.respond = [id |-> request_id, at |-> http.req[request_id].pc,
                         found |-> found,
                         result |-> IF found /\ ~open
                                    THEN "Failed to send response" ELSE "ok"]]
    /\ UNCHANGED <<vault, lock, call, hist, tx, limiter, session, server>>

ForwardNext ==
    \E r \in RequestIds :
        \/ forward_insert(r)
        \/ forward_emit(r)
        \/ forward_tick(r)
        \/ forward_receive(r)
        \/ forward_timeout(r)
        \/ forward_timeout_cleanup(r)
        \/ \E response \in FrontendResponses : respond_to_brc100(r, response)

\* The handler's task is scheduled again once its timeout has fired, and the
\* lock on BRC100State is only ever held for one map operation.
ForwardSpec ==
    /\ Init /\ [][ForwardNext]_vars
    /\ \A r \in RequestIds : WF_vars(forward_timeout_cleanup(r))

\* The runtime polls a handler whose channel or timer woke it: tokio::time::
\* timeout polls the receiver first and the deadline second, and time passes
\* for every waiting request.
ForwardLiveSpec ==
    /\ Init /\ [][ForwardNext]_vars
    /\ \A r \in RequestIds :
        /\ WF_vars(forward_tick(r))
        /\ WF_vars(forward_receive(r))
        /\ WF_vars(forward_timeout(r))
        /\ WF_vars(forward_timeout_cleanup(r))

-----------------------------------------------------------------------------
(* rate_limiter.rs: the unlock rate-limit commands, each under the manager's *)
(* mutex, the clock, the store file and the load at start                   *)

\* more than 15 minutes since the last record_failed call
GapSinceLastFailed == limiter.last_failed > 0 /\ limiter.now - limiter.last_failed > RESET_AFTER_MS

LimiterOut(op, panicked, flag, ms, attempts_remaining) ==
    [op |-> op, panicked |-> panicked, flag |-> flag, ms |-> ms,
     attempts_remaining |-> attempts_remaining, gap |-> GapSinceLastFailed]

LimiterPrev == [op |-> limiter.out.op, flag |-> limiter.out.flag]

check_unlock_rate_limit ==
    /\ LET r == check_limit(limiter.state, limiter.now)
       IN  limiter' = [limiter EXCEPT
               !.state = r.self,
               !.out = LimiterOut("check_limit", FALSE, r.is_limited, r.remaining_ms, 0),
               !.prev = LimiterPrev,
               !.streak = IF GapSinceLastFailed THEN 0 ELSE @,
               !.last_failed = IF GapSinceLastFailed THEN 0 ELSE @]
    /\ UNCHANGED <<vault, lock, call, hist, tx, http, session, server>>

record_failed_unlock ==
    /\ limiter.state.attempts < AttemptCap
    /\ \E overflow_checks \in BOOLEAN, opened \in BOOLEAN :
        LET r == record_failed(limiter.state, limiter.now, overflow_checks)
        IN  limiter' = [limiter EXCEPT
                !.state = r.self,
                !.store = IF r.panicked THEN @
                          ELSE persist_state(@, r.self, IntegrityKey, opened),
                !.out = LimiterOut("record_failed", r.panicked, r.is_locked,
                                   r.lockout_ms, r.attempts_remaining),
                !.prev = LimiterPrev,
                !.streak = IF GapSinceLastFailed THEN 1
                           ELSE IF @ = -1 THEN -1 ELSE @ + 1,
                !.last_failed = limiter.now]
    /\ UNCHANGED <<vault, lock, call, hist, tx, http, session, server>>

record_successful_unlock ==
    /\ \E opened \in BOOLEAN :
        LET fresh == record_success(limiter.state)
        IN  limiter' = [limiter EXCEPT
                !.state = fresh,
                !.store = persist_state(@, fresh, IntegrityKey, opened),
                !.out = LimiterOut("record_success", FALSE,
                                   limiter.state.locked_until > limiter.now, 0, 0),
                !.prev = LimiterPrev,
                !.streak = 0,
                !.last_failed = 0]
    /\ UNCHANGED <<vault, lock, call, hist, tx, http, session, server>>

get_remaining_unlock_attempts ==
    /\ limiter' = [limiter EXCEPT
            !.out = LimiterOut("remaining_attempts", FALSE, FALSE, 0,
                               remaining_attempts(limiter.state, limiter.now)),
            !.prev = LimiterPrev]
    /\ UNCHANGED <<vault, lock, call, hist, tx, http, session, server>>

\* SystemTime::now() moves on between two commands
clock_advance ==
    /\ \E d \in ClockSteps :
        /\ limiter.now + d <= ClockEnd
        /\ limiter' = [limiter EXCEPT !.now = @ + d]
    /\ UNCHANGED <<vault, lock, call, hist, tx, http, session, server>>

\* What somebody with access to the app data directory can put in the store
\* file: the record with its state zeroed, the record with another HMAC, a
\* record signed with a key of their own, the old format (the record without
\* its HMAC, or a zeroed state), nothing, junk.
StoreEdits ==
    {PersistedRateLimitState(RateLimitState_new, limiter.store.hmac),
     PersistedRateLimitState(limiter.store.state,
                             compute_state_hmac(limiter.store.state, ForeignKey)),
     PersistedRateLimitState(RateLimitState_new,
                             compute_state_hmac(RateLimitState_new, ForeignKey)),
     LegacyRecord(limiter.store.state),
     LegacyRecord(RateLimitState_new),
     NoEntry,
     Unparsable}

store_edit ==
    /\ limiter.out.op # "edit"
    /\ \E value \in StoreEdits \ {limiter.store} :
        limiter' = [limiter EXCEPT
            !.store = value,
            !.out = LimiterOut("edit", FALSE, FALSE, 0, 0),
            !.prev = LimiterPrev]
    /\ UNCHANGED <<vault, lock, call, hist, tx, http, session, server>>

\* the application starts again: the manager is built from the loaded state
app_start ==
    /\ \E opened \in BOOLEAN, reopened \in BOOLEAN :
        LET r == load_persisted_state(limiter.store, IntegrityKey, opened, reopened)
        IN  limiter' = [limiter EXCEPT
                !.state = r.state,
                !.store = r.store,
                !.out = LimiterOut("load", FALSE, opened, 0, 0),
                !.prev = LimiterPrev,
                !.streak = IF r.state = RateLimitState_new THEN 0 ELSE -1,
                !.last_failed = IF r.state = RateLimitState_new THEN 0 ELSE @]
    /\ UNCHANGED <<vault, lock, call, hist, tx, http, session, server>>

LimiterNext ==
    \/ check_unlock_rate_limit
    \/ record_failed_unlock
    \/ record_successful_unlock
    \/ get_remaining_unlock_attempts
    \/ clock_advance

LimiterSpec == Init /\ [][LimiterNext]_vars

\* The store file between two runs of the application.
PersistNext ==
    \/ record_failed_unlock
    \/ record_successful_unlock
    \/ store_edit
    \/ app_start

PersistSpec == Init /\ [][PersistNext]_vars

\* attempt counts handed to calculate_lockout_duration
AttemptCounts == 0..(3 * U64Bits)

calculate_lockout_duration_cmd ==
    /\ tx.op = "none"
    /\ \E attempts \in AttemptCounts, overflow_checks \in BOOLEAN :
        tx' = TxCall("calculate_lockout_duration",
                     [attempts |-> attempts, overflow_checks |-> overflow_checks],
                     IF overflow_checks
                     THEN calculate_lockout_duration_overflow_checked(attempts)
                     ELSE Ok(calculate_lockout_duration(attempts)))
    /\ UNCHANGED <<vault, lock, call, hist, http, limiter, session, server>>

BackoffNext == calculate_lockout_duration_cmd \/ tx_return

BackoffSpec == Init /\ [][BackoffNext]_vars

-----------------------------------------------------------------------------
(* lib.rs: the CSRF nonces of a session, each call under the session mutex *)

\* nonce strings a client can make up at time now
MadeUpNonces(now) ==
    {Nonce(now, 0), Nonce(now + CLOCK_SKEW_SECS + 1, 0), Nonce(now - NONCE_EXPIRY_SECS - 1, 0),
     NoUnderscore, TwoUnderscores(now), NotANumber}

\* generate_csrf_nonce / handle_get_nonce: &self, nothing is recorded
generate_nonce_call ==
    /\ Cardinality(session.issued) < NonceCap
    /\ session' = [session EXCEPT
            !.issued = @ \cup {generate_nonce(session, session.now, Cardinality(@) + 1)}]
    /\ UNCHANGED <<vault, lock, call, hist, tx, http, limiter, server>>

SessionFields(s) == [used_nonces |-> s.used_nonces, nonce_timestamps |-> s.nonce_timestamps]

validate_nonce_call ==
    /\ \E nonce \in session.issued \cup MadeUpNonces(session.now) :
        LET r == validate_nonce(SessionFields(session), nonce, session.now)
        IN  session' = [session EXCEPT
                !.used_nonces = r.self.used_nonces,
                !.nonce_timestamps = r.self.nonce_timestamps,
                !.accepted = IF r.result THEN @ \cup {nonce} ELSE @,
                !.out = [op |-> "validate_nonce", result |-> r.result,
                         replay |-> nonce \in session.accepted,
                         issued |-> nonce \in session.issued]]
    /\ UNCHANGED <<vault, lock, call, hist, tx, http, limiter, server>>

session_clock_advance ==
    /\ \E d \in SessionClockSteps :
        /\ session.now + d <= SessionClockEnd
        /\ session' = [session EXCEPT !.now = @ + d]
    /\ UNCHANGED <<vault, lock, call, hist, tx, http, limiter, server>>

NonceNext ==
    \/ generate_nonce_call
    \/ validate_nonce_call
    \/ session_clock_advance

NonceSpec == Init /\ [][NonceNext]_vars

\* ---------------------------------------------------------------------------
-----------------------------------------------------------------------------
(* http_server.rs: a request on its way through validate_host_header,       *)
(* validate_session_token, the route handler and back                       *)

SetHttpReq(r, rec) == [server EXCEPT !.req[r] = rec]

\* the response of a middleware or handler that ends the request there
Reject(r, stage, status, message) ==
    SetHttpReq(r, [server.req[r] EXCEPT !.stage = stage, !.status = status,
                                        !.message = message])

\* start_server: the build decides ALLOWED_ORIGINS
start_server ==
    /\ ~server.started
    /\ \E debug_assertions \in BOOLEAN :
        server' = [server EXCEPT !.started = TRUE, !.debug_assertions = debug_assertions]
    /\ UNCHANGED <<vault, lock, call, hist, tx, http, limiter, session>>

\* The token headers a client can send: none, the current token, and the
\* token before it (before the first rotation, one that never was a token).
TokenHeaders ==
    {NoToken, http.token, IF http.token = 0 THEN WrongToken ELSE http.token - 1}

\* a request arrives with its Host and X-Simply-Sats-Token headers; the
\* requests are taken up one after the other
request_arrives(r) ==
    /\ server.started /\ server.req[r].stage = "idle"
    /\ \A q \in RequestIds \ {r} : server.req[q].stage = "idle"
    /\ http.req[r].pc = "idle" /\ r \notin http.pending_responses
    /\ server.served < MaxRequests
    /\ \E host \in Hosts, token \in TokenHeaders :
        server' = [server EXCEPT
            !.served = @ + 1,
            !.req[r] = [NoHttpRequest EXCEPT !.stage = "arrived", !.host = host,
                                             !.token_header = token]]
    /\ UNCHANGED <<vault, lock, call, hist, tx, http, limiter, session>>

\* lines 110-127
validate_host_header(r) ==
    /\ server.req[r].stage = "arrived"
    /\ server' = IF host_allowed(server.req[r].host)
                 THEN SetHttpReq(r, [server.req[r] EXCEPT !.stage = "host_ok"])
                 ELSE Reject(r, "responded", 403, "Forbidden")
    /\ UNCHANGED <<vault, lock, call, hist, tx, http, limiter, session>>

\* lines 130-156 and 167-182: the token is compared under the session lock,
\* then the rate limiter is asked
validate_session_token(r) ==
    /\ server.req[r].stage = "host_ok"
    /\ \E is_expired \in is_token_expired :
        LET req == [server.req[r] EXCEPT !.token_seen = http.token]
        IN  server' =
              IF req.token_header = NoToken
              THEN [server EXCEPT !.req[r] = [req EXCEPT !.stage = "responded",
                        !.status = 401, !.message = "Unauthorized"]]
              ELSE IF ~token_is_valid(req.token_header, http.token)
              THEN [server EXCEPT !.req[r] = [req EXCEPT !.stage = "responded",
                        !.status = 401, !.message = "Unauthorized"]]
              ELSE IF server.rate_used < RATE_LIMIT_PER_MINUTE
              THEN [server EXCEPT !.rate_used = @ + 1,
                        !.req[r] = [req EXCEPT !.stage = "authenticated",
                                               !.rate_taken = TRUE,
                                               !.is_expired = is_expired]]
              ELSE [server EXCEPT !.req[r] = [req EXCEPT !.stage = "responded",
                        !.status = 429, !.message = "Too Many Requests"]]
    /\ UNCHANGED <<vault, lock, call, hist, tx, http, limiter, session>>

\* the router picks the handler
route_request(r) ==
    /\ server.req[r].stage = "authenticated"
    /\ \E route \in Routes :
        server' = SetHttpReq(r, [server.req[r] EXCEPT !.stage = "routed", !.route = route])
    /\ UNCHANGED <<vault, lock, call, hist, tx, http, limiter, session>>

\* lines 314-323
handle_get_nonce(r) ==
    /\ server.req[r].stage = "routed" /\ server.req[r].route = "getNonce"
    /\ server' = Reject(r, "handled", 200, "nonce")
    /\ session' = [session EXCEPT
            !.issued = @ \cup {generate_nonce(session, session.now, Cardinality(@) + 1)}]
    /\ UNCHANGED <<vault, lock, call, hist, tx, http, limiter>>

\* lines 495-501 (and the same lines of the five other handlers)
handle_validate_origin(r) ==
    /\ server.req[r].stage = "routed" /\ server.req[r].route \in ForwardingRoutes
    /\ \E header \in Origins :
        LET checked == validate_origin(extract_origin(header), server.debug_assertions)
        IN  server' = IF checked.ok
                      THEN SetHttpReq(r, [server.req[r] EXCEPT !.stage = "origin_ok",
                                                               !.origin = header])
                      ELSE SetHttpReq(r, [server.req[r] EXCEPT !.stage = "handled",
                                !.origin = header, !.status = 403, !.message = checked.err])
    /\ UNCHANGED <<vault, lock, call, hist, tx, http, limiter, session>>

\* The nonces a client can send: one it was given, one it made up for the
\* current second, one older than the expiry window.
NonceHeaders ==
    session.issued \cup {Nonce(session.now, 0), Nonce(session.now - NONCE_EXPIRY_SECS - 1, 0)}

\* lines 465-489 called at 503-506: SessionState::validate_nonce under the lock
handle_validate_nonce(r) ==
    /\ server.req[r].stage = "origin_ok"
    /\ \/ /\ server' = SetHttpReq(r, [server.req[r] EXCEPT !.stage = "handled",
                            !.nonce = "missing", !.status = 403,
                            !.message = "Missing CSRF nonce"])
          /\ UNCHANGED session
       \/ \E nonce \in NonceHeaders :
            LET v == validate_nonce(SessionFields(session), nonce, session.now)
                kind == IF nonce \in session.accepted THEN "replayed"
                        ELSE IF session.now > nonce.time + NONCE_EXPIRY_SECS THEN "expired"
                        ELSE "fresh"
            IN  /\ session' = [session EXCEPT
                        !.used_nonces = v.self.used_nonces,
                        !.nonce_timestamps = v.self.nonce_timestamps,
                        !.accepted = IF v.result THEN @ \cup {nonce} ELSE @,
                        !.out = [op |-> "validate_nonce", result |-> v.result,
                                 replay |-> nonce \in session.accepted,
                                 issued |-> nonce \in session.issued]]
                /\ server' = IF v.result
                             THEN SetHttpReq(r, [server.req[r] EXCEPT
                                    !.stage = "nonce_ok", !.nonce = kind])
                             ELSE SetHttpReq(r, [server.req[r] EXCEPT
                                    !.stage = "handled", !.nonce = kind, !.status = 403,
                                    !.message = "Invalid or expired CSRF nonce"])
    /\ UNCHANGED <<vault, lock, call, hist, tx, http, limiter>>

\* lines 508-529 and 752-758: the body is read and parsed, then
\* forward_to_frontend_impl registers the channel of the request
handle_forward(r) ==
    /\ server.req[r].stage = "nonce_ok"
    /\ \E body_ok \in BOOLEAN :
        IF body_ok
        THEN /\ server' = SetHttpReq(r, [server.req[r] EXCEPT !.stage = "forwarded"])
             /\ http' = [http EXCEPT
                    !.pending_responses = pending_responses_insert(@, r),
                    !.req[r] = [@ EXCEPT !.pc = "inserted", !.chan = "open",
                            !.rotate_token = server.req[r].route \in RotatingRoutes]]
        ELSE /\ server' = Reject(r, "handled", 400, "Invalid JSON")
             /\ UNCHANGED http
    /\ UNCHANGED <<vault, lock, call, hist, tx, limiter, session>>

\* the frontend answers a request it was sent
frontend_responds(r, response) ==
    /\ server.req[r].stage = "forwarded"
    /\ respond_to_brc100(r, response)

\* the status line of what forward_to_frontend_impl answered
StatusOf(answer) ==
    IF answer = "result" THEN 200 ELSE IF answer = "Internal error" THEN 500 ELSE 400

\* forward_to_frontend_impl has returned its response to the handler
handle_return(r) ==
    /\ server.req[r].stage = "forwarded" /\ http.req[r].pc = "answered"
    /\ server' = SetHttpReq(r, [server.req[r] EXCEPT !.stage = "handled",
                    !.status = StatusOf(http.req[r].answer),
                    !.message = http.req[r].answer,
                    !.new_token = http.req[r].new_token])
    /\ UNCHANGED <<vault, lock, call, hist, tx, http, limiter, session>>

\* lines 157-166: back in validate_session_token with the response of
\* next.run; a token found expired at the check is rotated now
validate_session_token_response(r) ==
    /\ server.req[r].stage = "handled"
    /\ IF server.req[r].is_expired
       THEN /\ http' = [http EXCEPT !.token = session_rotate_token(@)]
            /\ server' = SetHttpReq(r, [server.req[r] EXCEPT !.stage = "responded",
                            !.new_token = session_rotate_token(http.token)])
       ELSE /\ server' = SetHttpReq(r, [server.req[r] EXCEPT !.stage = "responded"])
            /\ UNCHANGED http
    /\ UNCHANGED <<vault, lock, call, hist, tx, limiter, session>>

\* the response is written and the connection ready for the next request
connection_next(r) ==
    /\ server.req[r].stage = "responded"
    /\ r \notin http.pending_responses
    /\ server' = SetHttpReq(r, NoHttpRequest)
    /\ http' = SetReq(r, NoRequest)
    /\ UNCHANGED <<vault, lock, call, hist, tx, limiter, session>>

ServerNext ==
    \/ start_server
    \/ \E r \in RequestIds :
        \/ request_arrives(r)
        \/ validate_host_header(r)
        \/ validate_session_token(r)
        \/ route_request(r)
        \/ handle_get_nonce(r)
        \/ handle_validate_origin(r)
        \/ handle_validate_nonce(r)
        \/ handle_forward(r)
        \/ forward_emit(r)
        \/ forward_tick(r)
        \/ forward_receive(r)
        \/ forward_timeout(r)
        \/ forward_timeout_cleanup(r)
        \/ \E response \in FrontendResponses : frontend_responds(r, response)
        \/ handle_return(r)
        \/ validate_session_token_response(r)
        \/ connection_next(r)

ServerSpec == Init /\ [][ServerNext]_vars

\* Properties
\* ---------------------------------------------------------------------------

Res(c) == Unwrap(call[c].result)

RecognisedRoles == {"wallet", "ord", "ordinals", "identity"}

\* The field of the store a role name selects
RoleSecret(store, k) ==
    CASE k = "wallet" -> store.wallet_wif
      [] k \in {"ord", "ordinals"} -> store.ord_wif
      [] k = "identity" -> store.identity_wif
      [] OTHER -> None

IsNoKeyStored(e) ==
    e \in {"No wallet key stored", "No ordinals key stored", "No identity key stored"}

IsUnknownRole(e) == e = "Invalid key type"

\* The step in which a *_from_store command resolves its role under the lock
ResolveStep(c) ==
    /\ call[c].pc = "locked" /\ call[c].op \in FromStoreOps
    /\ call'[c].pc \in {"compute", "done"}

\* What the resolution produced: the cloned secret or the error returned
ResolveOutcome(c) ==
    IF call'[c].pc = "done" THEN Unwrap(call'[c].result)
    ELSE [ok |-> TRUE, err |-> "", val |-> call'[c].local]

\* C1 (as amended): resolving a role name that is not wallet, ord, ordinals or
\* identity fails with the unknown-role error whatever the store holds, even
\* when it is empty; resolving a recognised role whose secret is absent fails
\* with the no-key-stored error; otherwise the stored secret of that role is
\* what the command works with.
C1_ResolveRole ==
    [][\A c \in Callers : ResolveStep(c) =>
        LET k   == Args(c).key_type
            out == ResolveOutcome(c)
        IN  IF k \notin RecognisedRoles
            THEN ~out.ok /\ IsUnknownRole(out.err)
            ELSE IF RoleSecret(vault, k) = None
            THEN ~out.ok /\ IsNoKeyStored(out.err)
            ELSE out.ok /\ out.val = RoleSecret(vault, k)]_vars

\* C1 as stated: an empty store, or an absent secret, always gives the
\* no-key-stored error, and an unrecognised name gives the unknown-role error.
C1_EmptyAlwaysNoKeyStored ==
    [][\A c \in Callers : ResolveStep(c) =>
        LET k   == Args(c).key_type
            out == ResolveOutcome(c)
        IN  /\ (~has_keys(vault) \/ (k \in RecognisedRoles /\ RoleSecret(vault, k) = None))
                  => (~out.ok /\ IsNoKeyStored(out.err))
            /\ (has_keys(vault) /\ k \notin RecognisedRoles)
                  => (~out.ok /\ IsUnknownRole(out.err))
            /\ (k \in RecognisedRoles /\ RoleSecret(vault, k) # None)
                  => (out.ok /\ out.val = RoleSecret(vault, k))]_vars

\* An unrecognised role was resolved against a store nothing was ever put in.
C1_Witness ==
    \E c \in Callers :
        /\ call[c].op = "sign_message_from_store" /\ call[c].pc = "done"
        /\ Args(c).key_type = "invalid"
        /\ ~Res(c).ok /\ Res(c).err = "Invalid key type"
        /\ vault = KeyStoreInner_new /\ hist = NoHistory

StoreOps == {"store_keys", "store_keys_direct"}

\* The step in which a store command commits under the lock
StoreCommitStep(c) ==
    call[c].pc = "locked" /\ call[c].op \in StoreOps /\ call'[c].pc = "done"

\* The key set a store call is about: derived for store_keys, supplied for
\* store_keys_direct
CallKeys(c) ==
    IF call[c].op = "store_keys"
    THEN LET a == Args(c)
         IN  Unwrap(derive_wallet_keys_for_account(a.mnemonic,
                 IF IsSome(a.account_index) THEN Unwrap(a.account_index) ELSE 0).val)
    ELSE Args(c)

SuppliedMnemonic(c) ==
    IF call[c].op = "store_keys" THEN Some(Args(c).mnemonic) ELSE Args(c).mnemonic

PublicProjection(k) ==
    [wallet_type      |-> "yours",
     wallet_address   |-> k.wallet_address,
     wallet_pub_key   |-> k.wallet_pub_key,
     ord_address      |-> k.ord_address,
     ord_pub_key      |-> k.ord_pub_key,
     identity_address |-> k.identity_address,
     identity_pub_key |-> k.identity_pub_key]

\* C2: when store_keys or store_keys_direct succeeds, the store resolves all
\* three roles (ord and ordinals alike) to the secrets of exactly that call,
\* the public keys it holds and returns are that call's public projection,
\* and the mnemonic it holds is the one supplied, absent if none was supplied.
C2_StoreCommits ==
    [][\A c \in Callers : StoreCommitStep(c) =>
        LET k == CallKeys(c)
            r == Unwrap(call'[c].result)
        IN  /\ r.ok /\ r.val = Some(PublicProjection(k))
            /\ get_wif(vault', "wallet")   = Ok(k.wallet_wif)
            /\ get_wif(vault', "ord")      = Ok(k.ord_wif)
            /\ get_wif(vault', "ordinals") = Ok(k.ord_wif)
            /\ get_wif(vault', "identity") = Ok(k.identity_wif)
            /\ vault'.pub_keys = Some(PublicProjection(k))
            /\ vault'.mnemonic = SuppliedMnemonic(c)]_vars

\* A direct store without mnemonic replaced the keys a mnemonic store had left.
C2_Witness ==
    \E c, d \in Callers :
        /\ c # d
        /\ call[c].op = "store_keys_direct" /\ call[c].pc = "done"
        /\ Args(c).mnemonic = None
        /\ call[d].op = "store_keys" /\ call[d].pc = "done" /\ Res(d).ok
        /\ vault.wallet_wif = Some(Args(c).wallet_wif)
        /\ vault.mnemonic = None /\ hist.gets = 0 /\ hist.clears = 0

\* The step in which store_keys returns an error
FailedStoreStep(c) ==
    /\ call[c].op \in StoreOps /\ call[c].pc # "done"
    /\ call'[c].pc = "done" /\ ~Unwrap(call'[c].result).ok

\* C3 (as amended): a store call that fails leaves the store exactly as it
\* was, neither replaced nor cleared, and so never a mixture of two key sets.
C3_FailedStoreKeepsVault ==
    [][\A c \in Callers : FailedStoreStep(c) => vault' = vault]_vars

\* C3 as stated: after a failed store the prior contents are gone, either
\* replaced by another key set or cleared.
C3_FailedStoreReplacesOrClears ==
    [][\A c \in Callers : FailedStoreStep(c) =>
          \/ vault' = KeyStoreInner_new
          \/ /\ has_keys(vault')
             /\ vault'.wallet_wif # vault.wallet_wif
             /\ vault'.ord_wif # vault.ord_wif
             /\ vault'.identity_wif # vault.identity_wif]_vars

\* A store call failed while the store held keys and a mnemonic.
C3_Witness ==
    \E c \in Callers :
        /\ call[c].op = "store_keys" /\ call[c].pc = "done" /\ ~Res(c).ok
        /\ has_keys(vault) /\ IsSome(vault.mnemonic) /\ IsSome(vault.pub_keys)

ClearStep(c) ==
    call[c].op = "clear_keys" /\ call[c].pc = "locked" /\ call'[c].pc = "done"

\* C4: clear_keys succeeds from every store state and leaves the empty
\* store, for which has_keys is false; clearing again changes nothing.
C4_ClearTotalIdempotent ==
    [][\A c \in Callers : ClearStep(c) =>
        /\ Unwrap(call'[c].result).ok
        /\ vault' = KeyStoreInner_new
        /\ ~has_keys(vault')
        /\ clear(vault') = vault'
        /\ clear(clear(vault)) = clear(vault)]_vars

\* Keys and a mnemonic were stored and clear_keys then ran twice.
C4_Witness ==
    /\ \A c \in Callers : call[c].op = "clear_keys" /\ call[c].pc = "done" /\ Res(c).ok
    /\ IsSome(hist.supplied) /\ hist.clears = 2
    /\ vault = KeyStoreInner_new

MnemonicStep(c) ==
    /\ call[c].op = "get_mnemonic_once" /\ call[c].pc = "locked"
    /\ call'[c].pc = "done"

\* C5 (as amended): get_mnemonic_once always succeeds; the first call after a
\* store, provided clear_keys has not run in between, returns the mnemonic
\* that store supplied; every later call before the next store returns none;
\* at most one call per store receives a mnemonic.
C5_MnemonicOnce ==
    [][/\ hist'.handed <= 1
       /\ \A c \in Callers : MnemonicStep(c) =>
            LET r == Unwrap(call'[c].result)
            IN  /\ r.ok
                /\ (hist.gets = 0 /\ hist.clears = 0)
                      => Unwrap(r.val) = hist.supplied
                /\ hist.gets >= 1 => Unwrap(r.val) = None]_vars

\* C5 as stated: the first call after a store that supplied a mnemonic
\* returns that mnemonic, whatever happened in between.
C5_FirstGetAlwaysReturns ==
    [][/\ hist'.handed <= 1
       /\ \A c \in Callers : MnemonicStep(c) =>
            LET r == Unwrap(call'[c].result)
            IN  /\ r.ok
                /\ hist.gets = 0 => Unwrap(r.val) = hist.supplied
                /\ hist.gets >= 1 => Unwrap(r.val) = None]_vars

\* Two calls followed one store: one received the mnemonic, the other none.
C5_Witness ==
    \E c, d \in Callers :
        /\ c # d
        /\ call[c].op = "get_mnemonic_once" /\ call[c].pc = "done"
        /\ call[d].op = "get_mnemonic_once" /\ call[d].pc = "done"
        /\ Res(c).ok /\ Unwrap(Res(c).val) = hist.supplied /\ IsSome(hist.supplied)
        /\ Res(d).ok /\ Unwrap(Res(d).val) = None
        /\ hist.gets = 2 /\ hist.handed = 1 /\ hist.clears = 0

\* C6: the lock is held only while a command reads or writes the store:
\* never during key derivation and never during signing, encryption,
\* decryption or transaction building.
C6_NoLockDuringCrypto ==
    \A c \in Callers :
        /\ call[c].pc \in {"derive", "compute"} => lock # c
        /\ lock = c => call[c].pc = "locked"

\* One caller computes with its cloned secret while another holds the lock.
C6_Witness ==
    \E c, d \in Callers :
        /\ c # d
        /\ call[c].pc = "compute" /\ call[c].op \in FromStoreOps
        /\ lock = d /\ call[d].pc = "locked"

\* A step of a *_from_store command
FromStoreStep(c) ==
    /\ call'[c] # call[c]
    /\ call[c].op \in FromStoreOps \/ call'[c].op \in FromStoreOps

\* C7: no step of a signing, encryption, decryption or transaction-building
\* command that works from the store changes the store, whether the command
\* succeeds or fails.
C7_FromStoreReadOnly ==
    [][\A c \in Callers : FromStoreStep(c) => vault' = vault]_vars

\* A build from the store failed for lack of funds and the keys are in place.
C7_Witness ==
    \E c \in Callers :
        /\ call[c].op = "build_p2pkh_tx_from_store" /\ call[c].pc = "done"
        /\ ~Res(c).ok /\ Res(c).err = "Insufficient funds"
        /\ has_keys(vault) /\ IsSome(vault.ord_wif) /\ IsSome(vault.identity_wif)

P2pkhOps == {"build_p2pkh_tx", "build_multi_key_p2pkh_tx"}

TxRes == Unwrap(tx.result)

TxArgs == Unwrap(tx.args)

Built == Unwrap(TxRes.val)

BuiltOutputs == Built.raw_tx.bytes.outputs

\* C8: a built payment accounts for every satoshi: fee plus change plus the
\* amount paid is the declared input total.
C8_FeeChangePaymentSum ==
    (tx.op \in P2pkhOps /\ TxRes.ok) =>
        Built.fee + Built.change + TxArgs.satoshis = TxArgs.total_input

\* A two-input multi-key payment was built with a change output.
C8_Witness ==
    /\ tx.op = "build_multi_key_p2pkh_tx" /\ TxRes.ok
    /\ Len(TxArgs.selected_utxos) = 2
    /\ Built.change > 0 /\ Built.fee > 0 /\ Len(BuiltOutputs) = 2

\* C9 as stated: with input minus payment above the dust threshold the fee
\* is the fee for two outputs and the transaction has two; otherwise it has
\* exactly one output, the reported change is zero and the remainder is the
\* fee; no change output at or below the dust threshold exists.
C9_ChangePolicy ==
    (tx.op \in P2pkhOps /\ TxRes.ok) =>
        LET prelim == TxArgs.total_input - TxArgs.satoshis
            n      == Len(TxArgs.selected_utxos)
        IN  /\ IF prelim > DUST_THRESHOLD
               THEN /\ Len(BuiltOutputs) = 2
                    /\ Built.fee = calculate_tx_fee(n, 2, TxArgs.fee_rate)
               ELSE /\ Len(BuiltOutputs) = 1
                    /\ Built.change = 0
                    /\ Built.fee = prelim
            /\ \A i \in 2..Len(BuiltOutputs) :
                    BuiltOutputs[i].satoshis > DUST_THRESHOLD

\* The fee of the output count the change policy plans for
PlannedFee ==
    calculate_tx_fee(Len(TxArgs.selected_utxos),
                     IF TxArgs.total_input - TxArgs.satoshis > DUST_THRESHOLD
                     THEN 2 ELSE 1,
                     TxArgs.fee_rate)

Shortfall == TxArgs.total_input < TxArgs.satoshis + PlannedFee

\* C10 (as amended): once the signing key has decoded, a payment build fails
\* with insufficient funds exactly when the declared input total is below
\* payment plus the fee of the planned output count; a failed build returns
\* no transaction, identifier or outpoints.
C10_InsufficientFunds ==
    tx.op \in P2pkhOps =>
        /\ (~TxRes.ok /\ TxRes.err = "Insufficient funds")
              <=> (wif_to_privkey_bytes(TxArgs.wif).ok /\ Shortfall)
        /\ ~TxRes.ok => TxRes.val = None

\* C10 as stated: the build fails with insufficient funds exactly when the
\* total is below payment plus planned fee.
C10_ShortfallAlwaysInsufficientFunds ==
    tx.op \in P2pkhOps =>
        /\ (~TxRes.ok /\ TxRes.err = "Insufficient funds") <=> Shortfall
        /\ ~TxRes.ok => TxRes.val = None

\* A build with a good key failed one satoshi short of payment plus fee.
C10_Witness ==
    /\ tx.op = "build_p2pkh_tx"
    /\ wif_to_privkey_bytes(TxArgs.wif).ok
    /\ TxArgs.total_input + 1 = TxArgs.satoshis + PlannedFee
    /\ ~TxRes.ok /\ TxRes.err = "Insufficient funds" /\ TxRes.val = None

IsTooFewInputs(e) == e = "Need at least 2 UTXOs to consolidate"

IsNoOutputValue(e) == e = "Cannot consolidate: leaves no output"

ConsolidationFee == calculate_tx_fee(Len(TxArgs.utxos), 1, TxArgs.fee_rate)

\* C11 (as amended): build_consolidation_tx fails with TooFewInputs whenever
\* fewer than 2 UTXOs are given, whatever their value; with at least 2 UTXOs
\* and a signing key that decodes it fails with NoOutputValue whenever the
\* fee is at least the sum of the input values; it succeeds only with at
\* least 2 UTXOs whose total strictly exceeds the fee.
C11_ConsolidationErrors ==
    tx.op = "build_consolidation_tx" =>
        LET n     == Len(TxArgs.utxos)
            total == SumSatoshis(TxArgs.utxos)
        IN  /\ n < 2 => (~TxRes.ok /\ IsTooFewInputs(TxRes.err))
            /\ (n >= 2 /\ wif_to_privkey_bytes(TxArgs.wif).ok /\ ConsolidationFee >= total)
                  => (~TxRes.ok /\ IsNoOutputValue(TxRes.err))
            /\ TxRes.ok => (n >= 2 /\ total > ConsolidationFee)

\* C11 as stated: with at least 2 UTXOs a fee that consumes the whole input
\* total always gives NoOutputValue.
C11_FeeConsumedAlwaysNoOutputValue ==
    tx.op = "build_consolidation_tx" =>
        LET n     == Len(TxArgs.utxos)
            total == SumSatoshis(TxArgs.utxos)
        IN  /\ n < 2 => (~TxRes.ok /\ IsTooFewInputs(TxRes.err))
            /\ (n >= 2 /\ ConsolidationFee >= total)
                  => (~TxRes.ok /\ IsNoOutputValue(TxRes.err))
            /\ TxRes.ok => (n >= 2 /\ total > ConsolidationFee)

\* Two UTXOs worth exactly the fee were refused with NoOutputValue.
C11_Witness ==
    /\ tx.op = "build_consolidation_tx" /\ Len(TxArgs.utxos) = 2
    /\ wif_to_privkey_bytes(TxArgs.wif).ok
    /\ SumSatoshis(TxArgs.utxos) = ConsolidationFee
    /\ ~TxRes.ok /\ IsNoOutputValue(TxRes.err)

\* C12: a successful consolidation has exactly one output, paying the
\* signer's own address, worth more than zero; output plus fee is the sum of
\* the values of the UTXOs given, the fee being that of as many inputs and
\* one output; spent_outpoints lists every UTXO given once, in input order.
C12_ConsolidationOutput ==
    (tx.op = "build_consolidation_tx" /\ TxRes.ok) =>
        LET utxos == TxArgs.utxos
            sk    == Unwrap(wif_to_privkey_bytes(TxArgs.wif).val)
        IN  /\ Len(BuiltOutputs) = 1
            /\ Ok(BuiltOutputs[1].locking_script)
                  = locking_script_from_address(address_from_pubkey(sk))
            /\ Built.address = address_from_pubkey(sk)
            /\ BuiltOutputs[1].satoshis = Built.output_sats
            /\ Built.output_sats > 0
            /\ Built.fee = calculate_tx_fee(Len(utxos), 1, TxArgs.fee_rate)
            /\ Built.output_sats + Built.fee = SumSatoshis(utxos)
            /\ Len(Built.spent_outpoints) = Len(utxos)
            /\ \A i \in 1..Len(utxos) :
                  /\ Built.spent_outpoints[i].txid = utxos[i].txid
                  /\ Built.spent_outpoints[i].vout = utxos[i].vout

\* Two different UTXOs totalling 8000 were consolidated at rate 0.1.
C12_Witness ==
    /\ tx.op = "build_consolidation_tx" /\ TxRes.ok
    /\ TxArgs.utxos = << UtxoA, UtxoB >> /\ TxArgs.fee_rate = FeeRate(1, 10)
    /\ Built.output_sats + Built.fee = 8000

\* ceil(num/den * size) floored at 1, by its defining property
CeilFloorOne(size, fee_rate) ==
    CHOOSE k \in 1..(size * fee_rate.num + 1) :
        /\ k * fee_rate.den >= size * fee_rate.num
        /\ k = 1 \/ (k - 1) * fee_rate.den < size * fee_rate.num

\* C13: the fee is max(1, ceil(fee_rate * (10 + 148*inputs + 34*outputs)));
\* 1 input and 2 outputs at rate 0.1 cost 23, 2 inputs and 1 output at rate
\* 0.05 cost 17, and a rate of 0 costs 1.
C13_FeeFormula ==
    /\ calculate_tx_fee(1, 2, FeeRate(1, 10)) = 23
    /\ calculate_tx_fee(2, 1, FeeRate(1, 20)) = 17
    /\ tx.op \in P2pkhOps \cup {"build_consolidation_tx"} =>
        \A i \in 0..Len(IF tx.op \in P2pkhOps THEN TxArgs.selected_utxos
                        ELSE TxArgs.utxos), o \in 0..2 :
            /\ calculate_tx_fee(i, o, TxArgs.fee_rate)
                  = CeilFloorOne(10 + 148 * i + 34 * o, TxArgs.fee_rate)
            /\ TxArgs.fee_rate.num = 0 => calculate_tx_fee(i, o, TxArgs.fee_rate) = 1
    /\ (tx.op \in P2pkhOps /\ TxRes.ok) =>
            Built.fee = CeilFloorOne(10 + 148 * Len(TxArgs.selected_utxos)
                            + 34 * (IF TxArgs.total_input - TxArgs.satoshis > DUST_THRESHOLD
                                    THEN 2 ELSE 1), TxArgs.fee_rate)
    /\ (tx.op = "build_consolidation_tx" /\ TxRes.ok) =>
            Built.fee = CeilFloorOne(10 + 148 * Len(TxArgs.utxos) + 34, TxArgs.fee_rate)

\* A payment with 1 input and 2 outputs was built at rate 0.1 for a fee of 23.
C13_Witness ==
    /\ tx.op = "build_p2pkh_tx" /\ TxRes.ok
    /\ Len(TxArgs.selected_utxos) = 1 /\ Len(BuiltOutputs) = 2
    /\ TxArgs.fee_rate = FeeRate(1, 10) /\ Built.fee = 23

BuildOps == P2pkhOps \cup {"build_consolidation_tx"}

BuiltUtxos == IF tx.op \in P2pkhOps THEN TxArgs.selected_utxos ELSE TxArgs.utxos

\* The key that signs input i: the input's own key in a multi-key build
InputSigner(i) ==
    Unwrap(wif_to_privkey_bytes(IF tx.op = "build_multi_key_p2pkh_tx"
                                THEN BuiltUtxos[i].wif ELSE TxArgs.wif).val)

PreimageOrder ==
    << "version", "hash_prevouts", "hash_sequence", "outpoint", "script_code",
       "value", "sequence", "hash_outputs", "locktime", "sighash_type" >>

\* C14: for every input of every built transaction the signed digest is the
\* double hash of: version, double hash of all outpoints, double hash of all
\* sequence numbers, the outpoint signed, the length-prefixed locking script
\* of the signing input, its value, its sequence number, double hash of the
\* serialized outputs, locktime 0 and sighash type 0x41, in this order; the
\* byte appended to each signature is the same 0x41.
C14_SighashPreimage ==
    (tx.op \in BuildOps /\ TxRes.ok) =>
        LET utxos  == BuiltUtxos
            signed == Built.raw_tx.bytes.inputs
            outpoint(j) == << Unwrap(txid_to_bytes(utxos[j].txid).val), utxos[j].vout >>
        IN  /\ Len(signed) = Len(utxos)
            /\ \A i \in 1..Len(utxos) :
                LET sig_der == signed[i].script_sig[1]
                    digest  == sig_der.der.digest
                    pre     == digest.dsha256_of
                IN  /\ sig_der.sighash_byte = 65
                    /\ sig_der.der.signer = InputSigner(i)
                    /\ digest = double_sha256(pre)
                    /\ Len(pre) = Len(PreimageOrder)
                    /\ \A k \in 1..Len(PreimageOrder) : pre[k].f = PreimageOrder[k]
                    /\ pre[1].v = Built.raw_tx.bytes.version
                    /\ pre[2].v = double_sha256([j \in 1..Len(utxos) |-> outpoint(j)])
                    /\ pre[3].v = double_sha256([j \in 1..Len(utxos) |-> signed[j].sequence])
                    /\ pre[4].v = outpoint(i)
                    /\ pre[5].v = [varint_len_then |->
                                      p2pkh_locking_script(hash160(pubkey_bytes(InputSigner(i))))]
                    /\ pre[6].v = utxos[i].satoshis
                    /\ pre[7].v = signed[i].sequence
                    /\ pre[8].v = double_sha256(serialize_outputs(BuiltOutputs))
                    /\ pre[9].v = 0 /\ pre[9].v = Built.raw_tx.bytes.locktime
                    /\ pre[10].v = 65

\* A multi-key payment with two inputs of different keys and a change output
\* was signed.
C14_Witness ==
    /\ tx.op = "build_multi_key_p2pkh_tx" /\ TxRes.ok
    /\ Len(BuiltUtxos) = 2 /\ InputSigner(1) # InputSigner(2)
    /\ Len(BuiltOutputs) = 2
    /\ Built.raw_tx.bytes.inputs[2].script_sig[1].der.signer = InputSigner(2)

VerifyOps == {"verify_signature", "verify_data_signature"}

\* C15 as stated: given a well-formed public key, an empty, non-hex or
\* non-DER signature is answered false and never with an error; the answer
\* is true only when the signature verifies for the digest of the given
\* payload under the given public key.
C15_MalformedSignatureIsFalse ==
    (tx.op \in VerifyOps /\ parse_pubkey(TxArgs.public_key_hex).ok) =>
        /\ TxArgs.signature_hex \in MalformedSignatures
              => (TxRes.ok /\ TxRes.val = Some(FALSE))
        /\ (TxRes.ok /\ TxRes.val = Some(TRUE))
              => verify_ecdsa(Sha256(TxArgs.payload), TxArgs.signature_hex,
                              Unwrap(parse_pubkey(TxArgs.public_key_hex).val))

\* C16: a signature made by sign_message (sign_data) over a payload verifies
\* as true with the signer's public key and that payload, and as false with
\* any other payload or with the public key of another key.
C16_SignThenVerify ==
    tx.op \in VerifyOps =>
        \A k \in CryptoKeys, p \in Payloads :
            (/\ TxArgs.signature_hex =
                    Unwrap((IF tx.op = "verify_signature"
                            THEN sign_message(privkey_to_wif(k), p)
                            ELSE sign_data(privkey_to_wif(k), p)).val)
             /\ parse_pubkey(TxArgs.public_key_hex).ok)
            => /\ TxRes.ok
               /\ Unwrap(TxRes.val) = (/\ TxArgs.public_key_hex = pubkey_hex(k)
                                       /\ TxArgs.payload = p)

\* A signature verified as true, and (by the formula) the same signature is
\* refused for every other payload and key.
C16_Witness ==
    /\ tx.op = "verify_data_signature" /\ TxRes.ok /\ TxRes.val = Some(TRUE)
    /\ TxArgs.public_key_hex = pubkey_hex(Account0Identity)
    /\ TxArgs.signature_hex
          = Unwrap(sign_data(privkey_to_wif(Account0Identity), TxArgs.payload).val)

\* The frame and whose keys a decrypt_ecies call was made with
FrameOf(a, b, pt) ==
    Unwrap(encrypt_ecies(privkey_to_wif(a), pt, pubkey_hex(b), pubkey_hex(a), "n1").val).ciphertext.bytes

\* C17: decrypting with B's secret and A's public key the frame A encrypted
\* for B returns the plaintext; decrypting it with a secret that does not
\* give the same shared key fails with the authentication error and returns
\* no plaintext.
C17_EciesRoundTrip ==
    (/\ tx.op = "decrypt_ecies"
     /\ wif_to_privkey(TxArgs.wif).ok /\ parse_pubkey(TxArgs.sender_pub_key).ok) =>
        \A a \in CryptoKeys, b \in CryptoKeys, pt \in Plaintexts :
            TxArgs.ciphertext_bytes = FrameOf(a, b, pt) =>
                LET sk     == Unwrap(wif_to_privkey(TxArgs.wif).val)
                    remote == Unwrap(parse_pubkey(TxArgs.sender_pub_key).val)
                IN  /\ (sk = b /\ remote = a) => TxRes = Ok(pt.text)
                    /\ ecdh_shared_key(sk, remote) # ecdh_shared_key(a, b)
                          => /\ ~TxRes.ok /\ TxRes.err = "Decryption failed"
                             /\ TxRes.val = None

\* The identity key decrypted what the peer encrypted for it.
C17_Witness ==
    /\ tx.op = "decrypt_ecies"
    /\ TxArgs.ciphertext_bytes
          = FrameOf(PeerKey, Account0Identity, Plaintext("secret", 6))
    /\ TxArgs.wif = privkey_to_wif(Account0Identity)
    /\ TxArgs.sender_pub_key = pubkey_hex(PeerKey)
    /\ TxRes = Ok("secret")

IsInvalidCiphertext(e) == e = "Ciphertext too short"

\* C18 (as amended): given a secret and a sender public key that decode,
\* decrypt_ecies rejects every frame shorter than 48 bytes with
\* InvalidCiphertext; every frame encrypt_ecies produces is 12 nonce bytes,
\* 20 pad bytes, the ciphertext and a 16-byte tag, at least 48 bytes, also
\* for the empty plaintext.
C18_MinimumFrame ==
    /\ (/\ tx.op = "decrypt_ecies" /\ TxArgs.ciphertext_bytes.len < 48
        /\ wif_to_privkey(TxArgs.wif).ok /\ parse_pubkey(TxArgs.sender_pub_key).ok)
          => (~TxRes.ok /\ IsInvalidCiphertext(TxRes.err) /\ TxRes.val = None)
    /\ (tx.op = "encrypt_ecies" /\ TxRes.ok) =>
          LET wire == Unwrap(TxRes.val).ciphertext.bytes
          IN  /\ wire.len >= 48
              /\ wire.pad = 20
              /\ wire.len = 12 + 20 + TxArgs.plaintext.len + 16

\* C18 as stated: every frame shorter than 48 bytes is rejected with
\* InvalidCiphertext.
C18_ShortFrameAlwaysInvalidCiphertext ==
    /\ (tx.op = "decrypt_ecies" /\ TxArgs.ciphertext_bytes.len < 48)
          => (~TxRes.ok /\ IsInvalidCiphertext(TxRes.err) /\ TxRes.val = None)
    /\ (tx.op = "encrypt_ecies" /\ TxRes.ok) =>
          LET wire == Unwrap(TxRes.val).ciphertext.bytes
          IN  /\ wire.len >= 48
              /\ wire.pad = 20
              /\ wire.len = 12 + 20 + TxArgs.plaintext.len + 16

\* A 47-byte frame was refused although key and nonce were right.
C18_Witness ==
    /\ tx.op = "decrypt_ecies" /\ TxArgs.ciphertext_bytes.len = 47
    /\ TxArgs.wif = privkey_to_wif(Account0Identity)
    /\ TxArgs.sender_pub_key = pubkey_hex(PeerKey)
    /\ ~TxRes.ok /\ IsInvalidCiphertext(TxRes.err)

DeriveOps == {"derive_wallet_keys_for_account", "derive_wallet_keys"}

\* The three paths the keys of a derivation result were reached by
PathsOf(keys) ==
    { keys.wallet_wif.key.path, keys.ord_wif.key.path, keys.identity_wif.key.path }

\* C19: account a is derived at m/44'/236'/a'/1/0, m/44'/236'/(2a+1)'/0/0
\* and m/0'/236'/a'/0/0, with 2a+1 not wrapped; two distinct accounts that
\* both derive share none of their paths; an account whose hardened
\* component is out of range fails.
C19_AccountPaths ==
    tx.op \in DeriveOps =>
        LET a == TxArgs.account_index
        IN  /\ TxRes.ok =>
                /\ Built.wallet_wif.key.path =
                      << <<44, TRUE>>, <<236, TRUE>>, <<a, TRUE>>, <<1, FALSE>>, <<0, FALSE>> >>
                /\ Built.ord_wif.key.path =
                      << <<44, TRUE>>, <<236, TRUE>>, <<2 * a + 1, TRUE>>, <<0, FALSE>>, <<0, FALSE>> >>
                /\ Built.identity_wif.key.path =
                      << <<0, TRUE>>, <<236, TRUE>>, <<a, TRUE>>, <<0, FALSE>>, <<0, FALSE>> >>
                /\ Cardinality(PathsOf(Built)) = 3
                /\ \A b \in AllAccountIndexes \ {a}, oc \in BOOLEAN :
                      LET other == IF oc
                                   THEN derive_wallet_keys_for_account_overflow_checked(
                                            TxArgs.mnemonic, b)
                                   ELSE derive_wallet_keys_for_account(TxArgs.mnemonic, b)
                      IN  other.ok => PathsOf(Built) \cap PathsOf(Unwrap(other.val)) = {}
            /\ (a >= HARDENED_FLAG \/ 2 * a + 1 >= HARDENED_FLAG) => ~TxRes.ok

\* The last account whose collectibles index is still below the hardened
\* flag was derived.
C19_Witness ==
    /\ tx.op = "derive_wallet_keys_for_account" /\ TxRes.ok
    /\ 2 * TxArgs.account_index + 1 = HARDENED_FLAG - 1
    /\ AccountComponent(Built.ord_wif.key.path) = HARDENED_FLAG - 1

TimedOut(r) == http.req[r].pc = "answered" /\ http.req[r].answer = "Request timeout"

\* C20: a forwarded request that got no response within 120 seconds is
\* answered 'Request timeout' and its entry is removed from
\* pending_responses; a respond_to_brc100 that arrives afterwards for that id
\* delivers nothing and changes no state.
C20_TimeoutReleases ==
    /\ [][\A r \in RequestIds :
            /\ (http.req[r].pc = "waiting" /\ http'.req[r].pc = "elapsed")
                  => (http.req[r].waited >= 120 /\ http.req[r].value = "none")
            /\ (http.req[r].pc = "elapsed" /\ http'.req[r].pc # "elapsed")
                  => (/\ http'.req[r].pc = "answered"
                      /\ http'.req[r].answer = "Request timeout"
                      /\ r \notin http'.pending_responses)
            /\ TimedOut(r) =>
                  /\ r \notin http.pending_responses
                  /\ http'.req[r] = http.req[r]
                  /\ (http'.respond # http.respond /\ http'.respond.id = r)
                        => (/\ http'.pending_responses = http.pending_responses
                            /\ http'.req = http.req /\ http'.token = http.token
                            /\ ~http'.respond.found
                            /\ http'.respond.result = "ok")]_vars
    /\ \A r \in RequestIds : (http.req[r].pc = "elapsed") ~> TimedOut(r)

\* A request timed out and a response for its id arrived after the answer.
C20_Witness ==
    \E r \in RequestIds :
        /\ TimedOut(r) /\ http.req[r].waited >= 120
        /\ http.respond.id = r /\ http.respond.at = "answered"
        /\ ~http.respond.found /\ http.respond.result = "ok"
        /\ r \notin http.pending_responses

\* C21: from the fresh state, the i-th failed attempt in a row reports not
\* locked with 5 - i attempts remaining for i = 1..4 and locked with 0
\* remaining for every i >= 5; a check_limit right after the 5th reports
\* limited with a positive remaining time.
C21_ConsecutiveFailures ==
    /\ [](limiter.out.op = "record_failed" /\ limiter.streak >= 1 =>
            /\ ~limiter.out.panicked
            /\ IF limiter.streak < 5
               THEN ~limiter.out.flag /\ limiter.out.attempts_remaining = 5 - limiter.streak
               ELSE limiter.out.flag /\ limiter.out.attempts_remaining = 0)
    /\ [][(/\ limiter.out.op = "record_failed" /\ limiter.streak = 5
           /\ limiter'.out.op = "check_limit" /\ limiter'.prev.op = "record_failed"
           /\ limiter.now = limiter.last_failed)
          => (limiter'.out.flag /\ limiter'.out.ms > 0)]_vars

\* the lockout the backoff schedule prescribes for n attempts
ExpectedLockout(n) == IF n < 5 THEN 0 ELSE IF n >= 14 THEN 300000 ELSE 1000 * (2 ^ (n - 5))

\* C22: calculate_lockout_duration(n) is 0 below 5 attempts and
\* min(1000 * 2^(n-5), 300000) ms from 5 on, so it never decreases and is the
\* 300000 ms cap for every n >= 14.
C22_LockoutDuration ==
    tx.op = "calculate_lockout_duration" =>
        /\ Unwrap(tx.result).ok
        /\ Unwrap(Unwrap(tx.result).val) = ExpectedLockout(Unwrap(tx.args).attempts)

\* C23: record_success resets any state, a locked one included, to the fresh
\* state; the remaining_attempts that follows returns 5 and the check_limit
\* that follows reports not limited.
C23_SuccessResets ==
    /\ limiter.out.op = "record_success" => limiter.state = RateLimitState_new
    /\ (limiter.out.op = "remaining_attempts" /\ limiter.prev.op = "record_success")
          => limiter.out.attempts_remaining = 5
    /\ (limiter.out.op = "check_limit" /\ limiter.prev.op = "record_success")
          => (~limiter.out.flag /\ limiter.out.ms = 0)

\* A locked limiter was reset by a success and then asked whether it limits.
C23_Witness ==
    /\ limiter.out.op = "check_limit" /\ ~limiter.out.flag
    /\ limiter.prev.op = "record_success" /\ limiter.prev.flag
    /\ limiter.state = RateLimitState_new

LimiterReads == {"check_limit", "remaining_attempts", "record_failed"}

\* C24: more than 15 minutes after the last failed attempt check_limit
\* reports not limited and clears the state, remaining_attempts returns 5
\* and record_failed counts as attempt 1 with 4 attempts remaining; up to 15
\* minutes after it none of the three lowers the attempt counter.
C24_InactivityReset ==
    /\ [](/\ (limiter.out.op = "check_limit" /\ limiter.out.gap)
                => (~limiter.out.flag /\ limiter.state = RateLimitState_new)
          /\ (limiter.out.op = "remaining_attempts" /\ limiter.out.gap)
                => limiter.out.attempts_remaining = 5
          /\ (limiter.out.op = "record_failed" /\ limiter.out.gap)
                => (/\ ~limiter.out.panicked /\ ~limiter.out.flag
                    /\ limiter.out.attempts_remaining = 4
                    /\ limiter.state.attempts = 1)
          /\ (limiter.out.op = "remaining_attempts" /\ ~limiter.out.gap)
                => limiter.out.attempts_remaining =
                      (IF limiter.state.attempts >= 5 THEN 0 ELSE 5 - limiter.state.attempts))
    /\ [][(limiter'.out.op \in LimiterReads /\ ~limiter'.out.gap)
            => (/\ limiter'.state.attempts >= limiter.state.attempts
                /\ limiter'.out.op = "record_failed" /\ limiter'.state # limiter.state
                      => limiter'.state.attempts = limiter.state.attempts + 1)]_vars

\* A locked limiter sees its next failure, more than 15 minutes later,
\* counted as the first.
C24_Witness ==
    /\ limiter.out.op = "record_failed" /\ limiter.out.gap
    /\ limiter.out.attempts_remaining = 4 /\ limiter.state.attempts = 1
    /\ limiter.prev.op = "record_failed" /\ limiter.prev.flag

HmacVerifies(stored) ==
    /\ stored.format = "wrapper"
    /\ stored.hmac = [hmac_sha256_of |-> stored.state, key |-> IntegrityKey]

\* C25: load_persisted_state returns a stored state only when its HMAC
\* verifies under the installation's integrity key; a stored value without a
\* valid HMAC (tampered state, tampered HMAC, no HMAC at all) is not loaded
\* and the limiter starts from the fresh state.
C25_LoadOnlyVerified ==
    [][(limiter'.out.op = "load" /\ limiter' # limiter) =>
          /\ limiter'.state # RateLimitState_new
                => (HmacVerifies(limiter.store) /\ limiter'.state = limiter.store.state)
          /\ ~HmacVerifies(limiter.store) => limiter'.state = RateLimitState_new]_vars

\* C26: a nonce is accepted once: after validate_nonce returned true for a
\* nonce, every later validate_nonce with the same nonce returns false,
\* whatever was validated in between, more than MAX_USED_NONCES nonces
\* within the expiry window included.
C26_NonceSingleUse ==
    (session.out.op = "validate_nonce" /\ session.out.replay) => ~session.out.result

\* C27: validate_nonce returns true only for a nonce that generate_nonce of
\* the same session returned; a string of the issued shape that the session
\* never issued is rejected.
C27_OnlyIssuedNonces ==
    (session.out.op = "validate_nonce" /\ session.out.result) => session.out.issued

\* The requests that reached a route handler, and those forwarded to the
\* frontend (the brc100-request event is emitted after the channel is made).
InHandler(r) == server.req[r].route # "none"

Forwarded(r) == http.req[r].pc # "idle"

HostInAllowList(r) == to_ascii_lowercase(server.req[r].host) \in ALLOWED_HOSTS

CarriedCurrentToken(r) ==
    server.req[r].token_header # NoToken /\ server.req[r].token_header = server.req[r].token_seen

\* C28: no route handler runs and nothing is forwarded for a request whose
\* Host header is not in the allow-list or whose token header is missing or
\* differs from the session token; a request with a bad Host is answered 403
\* before its token is looked at; the request rate limiter is charged only
\* by requests with an allowed Host and the current token.
C28_HostThenTokenThenRate ==
    /\ [](\A r \in RequestIds :
            /\ (InHandler(r) \/ Forwarded(r)) => (HostInAllowList(r) /\ CarriedCurrentToken(r))
            /\ server.req[r].rate_taken => (HostInAllowList(r) /\ CarriedCurrentToken(r))
            /\ (server.req[r].stage = "responded" /\ ~HostInAllowList(r))
                  => (server.req[r].status = 403 /\ server.req[r].token_seen = NoToken)
            /\ (server.req[r].stage = "responded" /\ HostInAllowList(r)
                    /\ ~CarriedCurrentToken(r))
                  => server.req[r].status = 401)
    /\ [][server'.rate_used # server.rate_used =>
            \E r \in RequestIds :
                /\ server.req[r].stage = "host_ok" /\ server'.req[r].rate_taken
                /\ server.req[r].token_header = http.token
                /\ server'.rate_used = server.rate_used + 1]_vars

\* a request with the token of before a rotation is answered 401 although the
\* limiter has requests left, and one with a foreign Host and the current
\* token was answered 403
C28_Witness ==
    /\ server.rate_used \in 1..(RATE_LIMIT_PER_MINUTE - 1)
    /\ \E r \in RequestIds :
        /\ server.req[r].stage = "responded" /\ server.req[r].status = 401
        /\ server.req[r].token_header = http.token - 1
        /\ ~server.req[r].rate_taken /\ ~InHandler(r) /\ ~Forwarded(r)

\* C29: the six forwarding handlers forward only a request whose origin is in
\* the allow-list and whose nonce was validated and consumed; a missing or
\* disallowed origin is answered 403 with no nonce consumed, a missing,
\* replayed or expired nonce is answered 403 with nothing forwarded.
C29_OriginThenNonceThenForward ==
    \A r \in RequestIds :
        /\ Forwarded(r) =>
            /\ server.req[r].route \in ForwardingRoutes
            /\ server.req[r].origin \in ALLOWED_ORIGINS(server.debug_assertions)
            /\ server.req[r].nonce = "fresh"
        /\ (server.req[r].route \in ForwardingRoutes
                /\ server.req[r].stage \in {"handled", "responded"}
                /\ server.req[r].origin \notin ALLOWED_ORIGINS(server.debug_assertions))
              => (server.req[r].status = 403 /\ server.req[r].nonce = "none" /\ ~Forwarded(r))
        /\ server.req[r].nonce \in {"missing", "replayed", "expired"}
              => (server.req[r].status = 403 /\ ~Forwarded(r))

\* the token is rotated by the step that takes the successful answer of a
\* state-changing operation, which puts the new token into the response
RotatedBySuccess(r) ==
    /\ http.req[r].pc = "waiting" /\ http'.req[r].answer = "result"
    /\ server.req[r].route \in RotatingRoutes
    /\ http'.req[r].new_token = http'.token

\* the token is rotated by validate_session_token on the way out, for a
\* request whose token it had found expired on the way in
RotatedByExpiry(r) ==
    /\ server.req[r].stage = "handled" /\ server.req[r].is_expired
    /\ server'.req[r].stage = "responded"
    /\ server'.req[r].new_token = http'.token

\* what both readings of the claim share: a successful state-changing
\* operation leaves a token that is new, and its response carries the token
\* that is current when it is sent; a token is never taken back into use; no
\* request is let past the token check with another token than the current
RotationOnSuccess ==
    /\ [](\A r \in RequestIds :
            /\ (server.req[r].stage \in {"handled", "responded"}
                    /\ server.req[r].route \in RotatingRoutes
                    /\ server.req[r].message = "result")
                  => /\ server.req[r].new_token = http.token
                     /\ http.token > server.req[r].token_seen
            /\ server.req[r].token_seen \notin {NoToken, server.req[r].token_header}
                  => (server.req[r].status = 401 /\ ~InHandler(r)))
    /\ [][/\ http'.token >= http.token
          /\ \A r \in RequestIds :
                (http.req[r].pc = "waiting" /\ http'.req[r].answer = "result"
                    /\ server.req[r].route \in RotatingRoutes)
                  => http'.token > http.token]_vars

\* what forward_to_frontend_impl answers when the frontend reported an error
\* or did not answer in time
FailedAnswers == {"frontend error", "Request timeout"}

Empty(store) ==
    /\ store.wallet_wif = None /\ store.ord_wif = None /\ store.identity_wif = None
    /\ store.pub_keys = None

Populated(store) ==
    /\ IsSome(store.wallet_wif) /\ IsSome(store.ord_wif) /\ IsSome(store.identity_wif)
    /\ IsSome(store.pub_keys)

\* C31: in every state the vault commands reach, the three role secrets and
\* the cached public keys are all present or all absent, so has_keys, the
\* presence of a get_public_keys value and the success of resolving each of
\* the roles agree.
C31_EmptyOrPopulated ==
    /\ Empty(vault) \/ Populated(vault)
    /\ has_keys(vault) <=> IsSome(vault.pub_keys)
    /\ \A k \in {"wallet", "ord", "ordinals", "identity"} :
            has_keys(vault) <=> get_wif(vault, k).ok

\* keys were stored directly with a mnemonic that has been handed out since,
\* and has_keys answered true
C31_Witness ==
    /\ Populated(vault) /\ vault.mnemonic = None
    /\ hist.handed = 1 /\ hist.supplied = Some(BackupMnemonic)
    /\ \E c \in Callers :
        /\ call[c].op = "has_keys" /\ call[c].pc = "done" /\ Res(c) = Ok(TRUE)

\* A key set as one store call commits it: its secrets, its public keys and
\* the mnemonic supplied with it.
KeySetOf(k, mnemonic) ==
    [wallet_wif |-> k.wallet_wif, ord_wif |-> k.ord_wif, identity_wif |-> k.identity_wif,
     pub_keys |-> PublicProjection(k), mnemonic |-> mnemonic]

\* The key sets the callers store.
StoredKeySets ==
    {KeySetOf(Unwrap(derive_wallet_keys_for_account(GoodMnemonic, i).val), Some(GoodMnemonic)) : i \in {0, 1}}
    \cup {KeySetOf(DirectKeys(m), m) : m \in DirectMnemonics}

\* the store holds this key set, with its mnemonic or with the mnemonic
\* already handed out
HoldsKeySet(store, ks) ==
    /\ store.wallet_wif = Some(ks.wallet_wif) /\ store.ord_wif = Some(ks.ord_wif)
    /\ store.identity_wif = Some(ks.identity_wif) /\ store.pub_keys = Some(ks.pub_keys)
    /\ store.mnemonic \in {None, ks.mnemonic}

\* the secret a role name selects from a key set
KeySetSecret(ks, k) ==
    CASE k = "wallet" -> ks.wallet_wif
      [] k \in {"ord", "ordinals"} -> ks.ord_wif
      [] k = "identity" -> ks.identity_wif

\* The step in which a *_from_store command completes its computation
ComputeStep(c) == call[c].pc = "compute" /\ call'[c].pc = "done"

\* C32: under every interleaving the store is empty or holds one stored key
\* set in all its parts (secrets, public keys, mnemonic if still there); a
\* command that resolved a secret holds the secret of its role from one
\* stored key set and completes with the result computed from that secret,
\* whatever was stored or cleared meanwhile; a command that finds the role
\* absent fails with the no-key-stored error.
C32_AtomicUnderInterleaving ==
    /\ [](/\ vault = KeyStoreInner_new \/ \E ks \in StoredKeySets : HoldsKeySet(vault, ks)
          /\ \A c \in Callers : call[c].pc = "compute" =>
                \E ks \in StoredKeySets :
                    Unwrap(call[c].local) = KeySetSecret(ks, Args(c).key_type))
    /\ [][\A c \in Callers :
            /\ ComputeStep(c) =>
                \E nonce \in Nonces :
                    call'[c].result = Some(Computation(call[c].op, Unwrap(call[c].local),
                                                       Args(c), nonce))
            /\ (ResolveStep(c) /\ Args(c).key_type \in RecognisedRoles)
                  => IF call'[c].pc = "compute"
                     THEN call'[c].local = RoleSecret(vault, Args(c).key_type)
                     ELSE IsNoKeyStored(Unwrap(call'[c].result).err)]_vars

\* a signature was made with the identity secret resolved from one key set
\* after a concurrent store had replaced that key set by another
C32_Witness ==
    \E c, d \in Callers :
        /\ c # d
        /\ call[c].op = "sign_message_from_store" /\ call[c].pc = "done" /\ Res(c).ok
        /\ Args(c).key_type = "identity"
        /\ call[d].op \in StoreOps /\ call[d].pc = "done" /\ Res(d).ok
        /\ Populated(vault) /\ Unwrap(call[c].local) # Unwrap(vault.identity_wif)

\* C33: get_mnemonic_once changes the mnemonic field only: the three role
\* secrets and the cached public keys are after it what they were before, so
\* has_keys, get_public_keys and the resolution of every role are unchanged.
C33_MnemonicOnlyFrame ==
    [][\A c \in Callers : MnemonicStep(c) =>
        /\ vault'.wallet_wif = vault.wallet_wif
        /\ vault'.ord_wif = vault.ord_wif
        /\ vault'.identity_wif = vault.identity_wif
        /\ vault'.pub_keys = vault.pub_keys
        /\ vault'.mnemonic = None
        /\ has_keys(vault') = has_keys(vault)
        /\ \A k \in KeyTypes : get_wif(vault', k) = get_wif(vault, k)]_vars

\* the mnemonic was revealed and taken out of a populated store, and a
\* signing command completed with the wallet key that store still holds
C33_Witness ==
    \E c, d \in Callers :
        /\ c # d
        /\ call[c].op = "get_mnemonic_once" /\ call[c].pc = "done"
        /\ Res(c).ok /\ IsSome(Unwrap(Res(c).val))
        /\ Populated(vault) /\ vault.mnemonic = None /\ hist.clears = 0
        /\ call[d].op = "sign_message_from_store" /\ call[d].pc = "done" /\ Res(d).ok
        /\ call[d].local = vault.wallet_wif

\* The output count calculate_change_and_fee computes the fee for
PlannedOutputs == IF TxArgs.total_input - TxArgs.satoshis > DUST_THRESHOLD THEN 2 ELSE 1

\* C34: a built payment has as many outputs as its fee was computed for: a
\* change output exactly when the fee is the fee of two outputs.
C34_OutputCountMatchesFee ==
    (tx.op \in P2pkhOps /\ TxRes.ok) =>
        /\ Built.fee = calculate_tx_fee(Len(TxArgs.selected_utxos), PlannedOutputs,
                                        TxArgs.fee_rate)
        /\ Len(BuiltOutputs) = PlannedOutputs

RECURSIVE SumOutputs(_)
\* the satoshis a sequence of outputs pays out
SumOutputs(outputs) ==
    IF outputs = << >> THEN 0 ELSE Head(outputs).satoshis + SumOutputs(Tail(outputs))

\* C35: the reported fee of a built payment is the fee the transaction pays:
\* the satoshis of the selected UTXOs minus the satoshis of its outputs,
\* whatever total and UTXO list the caller supplied, the empty list included.
C35_ReportedFeeIsPaidFee ==
    (tx.op \in P2pkhOps /\ TxRes.ok) =>
        Built.fee = SumSatoshis(TxArgs.selected_utxos) - SumOutputs(BuiltOutputs)

\* forward_to_frontend has returned its response for request r
Returned(r) == http.req[r].pc = "answered"

\* C36: once forward_to_frontend has returned, by whichever exit, the map
\* pending_responses has no entry for the id of that request.
C36_NoEntryAfterReturn ==
    \A r \in RequestIds : Returned(r) => r \notin http.pending_responses

\* the responses forward_to_frontend answers a request it has forwarded with
Outcomes == {"result", "frontend error", "Request cancelled", "Request timeout"}

\* the request the brc100-request event was emitted for waits for its response
Forwarding(r) == http.req[r].pc = "waiting"

\* this step is a respond_to_brc100 for id r
RespondStep(r) == http'.respond # http.respond /\ http'.respond.id = r

\* this step puts a response into the channel of request r
Delivered(r) == http.req[r].chan # "full" /\ http'.req[r].chan = "full"

\* C37: every forwarded request ends with exactly one outcome, the frontend's
\* result or error, 'Request cancelled' or 'Request timeout', however
\* respond_to_brc100 interleaves with the timeout: a response reaches the one
\* request of its id, a second respond_to_brc100 for that id and one for an
\* unknown id deliver nothing, and a response that races with the timeout
\* never leaves the request waiting.
C37_ExactlyOneOutcome ==
    /\ [](\A r \in RequestIds :
            /\ Forwarding(r) => http.req[r].chan \in {"open", "full"}
            /\ (Returned(r) /\ http.req[r].answer # "Internal error") =>
                  /\ http.req[r].answer \in Outcomes
                  /\ http.req[r].answer = "Request timeout" <=> http.req[r].value = "none"
                  /\ http.req[r].answer = "result" <=> http.req[r].value = "result"
                  /\ http.req[r].answer = "frontend error" <=> http.req[r].value = "error")
    /\ [][\A r \in RequestIds :
            /\ Returned(r) => http'.req[r] = http.req[r]
            /\ Delivered(r) =>
                  /\ RespondStep(r) /\ http'.respond.found
                  /\ r \in http.pending_responses /\ r \notin http'.pending_responses
                  /\ \A q \in RequestIds \ {r} : http'.req[q] = http.req[q]
            /\ http.req[r].value # "none" => http'.req[r].value = http.req[r].value
            /\ (RespondStep(r) /\ r \notin http.pending_responses) =>
                  /\ http'.req = http.req /\ http'.token = http.token
                  /\ http'.pending_responses = http.pending_responses
                  /\ ~http'.respond.found]_vars
    /\ \A r \in RequestIds :
            Forwarding(r) ~> (Returned(r) /\ http.req[r].answer \in Outcomes)

\* One request timed out and the response for its id came between the timer
\* and the removal, failing to send; the other got its response after 120 s
\* but before its timer was seen, and answered with it.
C37_Witness ==
    \E r, q \in RequestIds :
        /\ TimedOut(r) /\ http.req[r].value = "none"
        /\ http.respond.id = r /\ http.respond.at = "elapsed" /\ http.respond.found
        /\ http.respond.result = "Failed to send response"
        /\ Returned(q) /\ http.req[q].answer = "result"
        /\ http.req[q].waited >= TIMEOUT_SECS
        /\ http.pending_responses = {}

====
